---- MODULE Spec2Model ----
(***************************************************************************)
(* A model of the Chumcred StratIQ diagnostic pipeline:                    *)
(*   scoring (core/scoring_engine.py), benchmarking (core/benchmarking.py),*)
(*   SWOT (core/swot_engine.py), recommendations (core/recommender.py),    *)
(*   report assembly (core/report_engine.py) over the review / KPI-input   *)
(*   store (db/repository.py).                                             *)
(*                                                                         *)
(* Numbers.  Every Python number (raw KPI value, rule bound, score,        *)
(* average, weight, median, gap) is kept as an integer in thousandths:     *)
(* 15.0 is 15000, the score 3 is 3000, the weight 0.5 is 500.  round(x, 2) *)
(* is Round2: to the nearest multiple of 10, ties to even.                 *)
(*                                                                         *)
(* Python values are records tagged none / num / str.  A dict whose        *)
(* iteration order matters (kpi_inputs) is a sequence of <<key, value>>    *)
(* pairs with distinct keys, in insertion order; a dict that is only       *)
(* looked up is a function.  An f-string is the tuple of its pieces.       *)
(***************************************************************************)
EXTENDS Integers, Sequences, FiniteSets, TLC

VARIABLES
    mode,        \* which entry point this behaviour exercises
    pc,          \* "call" before the entry point has run, "done" after
    args,        \* the arguments (and configuration files) of the call
    ret,         \* what the call returned or raised
    reviews,     \* table reviews: sequence of rows, in rowid order
    kpi_inputs,  \* table kpi_inputs: sequence of rows, in rowid order
    next_id,     \* AUTOINCREMENT counter of table reviews
    report       \* outcome of the last generate_report_payload call

vars == <<mode, pc, args, ret, reviews, kpi_inputs, next_id, report>>

-----------------------------------------------------------------------------
(* Python values *)

None == [t |-> "none", n |-> 0, s |-> ""]
Num(n) == [t |-> "num", n |-> n, s |-> ""]
Str(x) == [t |-> "str", n |-> 0, s |-> x]
IsNone(x) == x.t = "none"
IsNum(x) == x.t = "num"
\* bool(x): None, 0 and "" are falsy
Truthy(x) == ~(IsNone(x) \/ (x.t = "num" /\ x.n = 0) \/ (x.t = "str" /\ x.s = ""))
\* a or b
Or(a, b) == IF Truthy(a) THEN a ELSE b
\* n whole units, in thousandths
Milli(n) == n * 1000
\* str(x) as an f-string renders it
Fmt(x) == IF x.t = "str" THEN x.s ELSE IF IsNone(x) THEN "None" ELSE ToString(x.n)

\* A call either returns a value or raises.
Return(v) == [raised |-> "", msg |-> "", value |-> v]
Raise(type, msg) == [raised |-> type, msg |-> msg, value |-> <<>>]

NoCall == [raised |-> "", msg |-> "", value |-> <<"not called">>]

\* dict (function) helpers: d.get(k, default) and d[k] = v
Get(d, k, default) == IF k \in DOMAIN d THEN d[k] ELSE default
Put(d, k, v) == [x \in (DOMAIN d) \cup {k} |-> IF x = k THEN v ELSE d[x]]
EmptyDict == [x \in {} |-> 0]

\* a list element that is a dict, and one that is a tuple or list
DictItem(d) == [kind |-> "dict", d |-> d, xs |-> <<>>]
TupleItem(xs) == [kind |-> "tuple", d |-> <<>>, xs |-> xs]

\* ordered dict (sequence of pairs) helpers
Keys(od) == {od[i][1] : i \in 1..Len(od)}
Range(s) == {s[i] : i \in 1..Len(s)}

RECURSIVE SumSet(_, _)
SumSet(f, S) ==
    IF S = {} THEN 0
    ELSE LET x == CHOOSE y \in S : TRUE IN f[x] + SumSet(f, S \ {x})

\* num / den rounded to the nearest integer, ties to even; den > 0
RoundDiv(num, den) ==
    LET q == num \div den
        r == num % den
    IN  IF 2 * r < den THEN q
        ELSE IF 2 * r > den THEN q + 1
        ELSE IF q % 2 = 0 THEN q ELSE q + 1

\* round(num / den, 2) of thousandths, in thousandths
Round2Div(num, den) == 10 * RoundDiv(num, 10 * den)
\* round(x, 2)
Round2(x) == Round2Div(x, 1)

-----------------------------------------------------------------------------
(* core/scoring_engine.py: score_value *)

\* Comparing a non-number (None) with a number raises TypeError in Python 3.
CmpRaises(value, bound) == ~IsNone(bound) /\ ~IsNum(value)

\* (mn is None or value >= mn)
OkMin(value, mn) == IsNone(mn) \/ value.n >= mn.n

OkMaxStrict(value, mx) == IsNone(mx) \/ value.n < mx.n
\* (mx is None or value <= mx)
OkMax(value, mx) == IsNone(mx) \/ value.n <= mx.n

RECURSIVE ScoreFrom(_, _, _)
ScoreFrom(value, rules, i) ==
    IF i > Len(rules) THEN Return(Num(0))
    ELSE LET mn == rules[i].min
             mx == rules[i].max
         IN  IF CmpRaises(value, mn) THEN Raise("TypeError", "'>=' not supported")
             ELSE IF ~OkMin(value, mn) THEN ScoreFrom(value, rules, i + 1)
             ELSE IF CmpRaises(value, mx) THEN Raise("TypeError", "'<=' not supported")
             ELSE IF OkMax(value, mx) THEN Return(rules[i].score)
             ELSE ScoreFrom(value, rules, i + 1)

score_value(value, rules) == ScoreFrom(value, rules, 1)

-----------------------------------------------------------------------------
(* core/kpi_registry.py: the configuration files, as load_kpis() and       *)
(* load_pillar_weights() return them                                       *)

Rule(mn, mx, sc) == [min |-> mn, max |-> mx, score |-> sc]
Cfg(pillar, rules) == [defined |-> TRUE, pillar |-> pillar, scoring_rules |-> rules]
\* what kpis.get(kpi_id) gives for a missing key: None, which is falsy
NoCfg == [defined |-> FALSE, pillar |-> "", scoring_rules |-> <<>>]

\* kpis.get(kpi_id), defaulting an unknown KPI to an unruled "OTHER" KPI
LookupCfgDefaulting(kpis, kpi_id) ==
    IF kpi_id \in DOMAIN kpis THEN kpis[kpi_id] ELSE Cfg("OTHER", <<>>)
\* kpis.get(kpi_id)
LookupCfg(kpis, kpi_id) == IF kpi_id \in DOMAIN kpis THEN kpis[kpi_id] ELSE NoCfg

-----------------------------------------------------------------------------
(* core/scoring_engine.py: compute_scores *)

\* {"kpi_id": kpi_id, "value": value, "score": score, "pillar": pillar}
ScoreRecord(kpi_id, value, score, pillar) ==
    [kpi_id |-> Str(kpi_id), value |-> value, score |-> score, pillar |-> Str(pillar)]

\* the loop over kpi_inputs.items(); acc holds results, pillar_totals,
\* pillar_counts and the exception that ended the loop, if any
RECURSIVE ScoreLoop(_, _, _, _)
ScoreLoop(inputs, kpis, i, acc) ==
    IF i > Len(inputs) THEN acc
    ELSE LET kpi_id == inputs[i][1]
             value == inputs[i][2]
             cfg == LookupCfg(kpis, kpi_id)
         IN  IF ~cfg.defined THEN ScoreLoop(inputs, kpis, i + 1, acc)
             ELSE LET s == score_value(value, cfg.scoring_rules)
                      pillar == cfg.pillar
                  IN  IF s.raised # "" THEN [acc EXCEPT !.raised = s.raised, !.msg = s.msg]
                      ELSE ScoreLoop(inputs, kpis, i + 1,
                             [acc EXCEPT
                                !.results = Append(@, DictItem(ScoreRecord(kpi_id, value, s.value, pillar))),
                                !.totals = Put(@, pillar, Get(@, pillar, 0) + s.value.n),
                                !.counts = Put(@, pillar, Get(@, pillar, 0) + 1)])

\* the totals, not divided by the counts
PillarTotals(totals, counts) == [p \in DOMAIN totals |-> totals[p]]
\* round(pillar_totals[p] / pillar_counts[p], 2) for p in pillar_totals
PillarAverages(totals, counts) ==
    [p \in DOMAIN totals |-> Round2Div(totals[p], counts[p])]

\* pillar_weights.get(p, 1): an unweighted pillar counted in full
WeightDefaultOne(pillar_weights, p) == Get(pillar_weights, p, Milli(1))
\* pillar_weights.get(p, 0)
Weight(pillar_weights, p) == Get(pillar_weights, p, 0)

\* bhi = 0; bhi += avg * weight for each scored pillar; round(bhi, 2)
Bhi(pillar_scores, pillar_weights) ==
    Round2Div(SumSet([p \in DOMAIN pillar_scores |->
                         pillar_scores[p] * Weight(pillar_weights, p)],
                     DOMAIN pillar_scores),
              Milli(1))

compute_scores(inputs, kpis, pillar_weights) ==
    LET acc == ScoreLoop(inputs, kpis, 1,
                         [raised |-> "", msg |-> "", results |-> <<>>,
                          totals |-> EmptyDict, counts |-> EmptyDict])
        pillar_scores == PillarAverages(acc.totals, acc.counts)
    IN  IF acc.raised # "" THEN Raise(acc.raised, acc.msg)
        ELSE Return([results |-> acc.results,
                     pillar_scores |-> pillar_scores,
                     bhi |-> Bhi(pillar_scores, pillar_weights)])

-----------------------------------------------------------------------------
(* core/benchmarking.py *)

\* a Python dict as a value: d maps its keys to values
PyDict(d) == [t |-> "dict", n |-> 0, s |-> "", d |-> d]

\* the benchmark store: None (core.benchmark_data is missing), a dict keyed
\* by industry, or a list of rows; dicts are kept in insertion order
NoBenchmarks == [kind |-> "none", od |-> <<>>, rows |-> <<>>]
BenchDict(od) == [kind |-> "dict", od |-> od, rows |-> <<>>]
BenchList(rows) == [kind |-> "list", od |-> <<>>, rows |-> rows]

\* str(s).strip().lower() of the strings the model uses
Norm(x) ==
    CASE x \in {"Telecom", "telecom", " TELECOM "} -> "telecom"
      [] x \in {"Banking", "banking"} -> "banking"
      [] x \in {"FIN_MARGIN", "fin_margin"} -> "fin_margin"
      [] x \in {"FIN_GROWTH", "fin_growth"} -> "fin_growth"
      [] x \in {"CUS_NPS", "cus_nps"} -> "cus_nps"
      [] x \in {"XX_UNKNOWN", "xx_unknown"} -> "xx_unknown"
      [] x \in {"Energy", "energy"} -> "energy"
      [] OTHER -> x

\* _safe_float: None, a non-numeric string and a dict give the default
safe_float(x, default) == IF IsNum(x) THEN x.n ELSE default

\* the position of the first key of an ordered dict whose normalized form is
\* key, or 0: `for k, v in d.items(): if _norm(k) == key: ...; break`
RECURSIVE FirstNormIndex(_, _, _)
FirstNormIndex(od, key, i) ==
    IF i > Len(od) THEN 0
    ELSE IF Norm(od[i][1]) = key THEN i
    ELSE FirstNormIndex(od, key, i + 1)

\* an unmatched industry given the first industry's reference as a default
ResolveDefaultingToFirst(BENCHMARKS, industry) ==
    IF BENCHMARKS.kind = "none" THEN NoBenchmarks
    ELSE IF BENCHMARKS.kind = "dict"
    THEN LET i == FirstNormIndex(BENCHMARKS.od, Norm(industry), 1)
         IN  IF i = 0 THEN BENCHMARKS.od[1][2] ELSE BENCHMARKS.od[i][2]
    ELSE LET rows == SelectSeq(BENCHMARKS.rows,
                        LAMBDA row : Norm(Fmt(Get(row, "industry", None))) = Norm(industry))
         IN  IF rows = <<>> THEN BenchList(BENCHMARKS.rows) ELSE BenchList(rows)
\* _resolve_benchmarks_for_industry
resolve_benchmarks_for_industry(BENCHMARKS, industry) ==
    IF BENCHMARKS.kind = "none" THEN NoBenchmarks
    ELSE IF BENCHMARKS.kind = "dict"
    THEN LET i == FirstNormIndex(BENCHMARKS.od, Norm(industry), 1)
         IN  IF i = 0 THEN NoBenchmarks ELSE BENCHMARKS.od[i][2]
    ELSE LET rows == SelectSeq(BENCHMARKS.rows,
                        LAMBDA row : Norm(Fmt(Get(row, "industry", None))) = Norm(industry))
         IN  IF rows = <<>> THEN NoBenchmarks ELSE BenchList(rows)

\* `not bench`: None, {} and [] are falsy
BenchFalsy(bench) ==
    \/ bench.kind = "none"
    \/ bench.kind = "dict" /\ bench.od = <<>>
    \/ bench.kind = "list" /\ bench.rows = <<>>

\* _get_ref: {"median": ..} with "p25" / "p75" when the reference has them
\* (None stands for an absent key)
get_ref(ref_obj) ==
    IF IsNum(ref_obj) THEN [median |-> safe_float(ref_obj, 0), p25 |-> None, p75 |-> None]
    ELSE IF ref_obj.t = "dict"
    THEN LET d == ref_obj.d
             median == IF "median" \in DOMAIN d THEN d["median"]
                       ELSE Get(d, "p50", Get(d, "avg", Get(d, "mean", Num(0))))
             p25 == Get(d, "p25", Get(d, "q1", Get(d, "lower", None)))
             p75 == Get(d, "p75", Get(d, "q3", Get(d, "upper", None)))
         IN  [median |-> safe_float(median, 0),
              p25 |-> IF IsNone(p25) THEN None ELSE Num(safe_float(p25, 0)),
              p75 |-> IF IsNone(p75) THEN None ELSE Num(safe_float(p75, 0))]
    ELSE [median |-> 0, p25 |-> None, p75 |-> None]

\* score_map[key] = v on an insertion-ordered dict
OdPut(od, key, v) ==
    IF \E i \in 1..Len(od) : od[i][1] = key
    THEN [i \in 1..Len(od) |-> IF od[i][1] = key THEN <<key, v>> ELSE od[i]]
    ELSE Append(od, <<key, v>>)
\* score_map.get(key): None when missing
OdGet(od, key) ==
    IF \E i \in 1..Len(od) : od[i][1] = key
    THEN Num((od[CHOOSE i \in 1..Len(od) : od[i][1] = key])[2])
    ELSE None

\* the scored values handed to compare_to_benchmark: a dict or a list
ScoresDict(od) == [kind |-> "dict", od |-> od, items |-> <<>>]
ScoresList(items) == [kind |-> "list", od |-> <<>>, items |-> items]

\* item.get("value", item.get("val", item.get("score", 0.0)))
ItemValue(d) == Get(d, "value", Get(d, "val", Get(d, "score", Num(0))))
\* item.get("kpi_id") or item.get("id") or item.get("kpi")
ItemKpiId(d) == Or(Get(d, "kpi_id", None), Or(Get(d, "id", None), Get(d, "kpi", None)))

\* the normalization of scores into score_map
RECURSIVE ScoreMapOfDict(_, _, _)
ScoreMapOfDict(od, i, acc) ==
    IF i > Len(od) THEN acc
    ELSE ScoreMapOfDict(od, i + 1, OdPut(acc, od[i][1], safe_float(od[i][2], 0)))

RECURSIVE ScoreMapOfList(_, _, _)
ScoreMapOfList(items, i, acc) ==
    IF i > Len(items) THEN acc
    ELSE LET item == items[i]
         IN  IF item.kind = "dict"
             THEN IF Truthy(ItemKpiId(item.d))
                  THEN ScoreMapOfList(items, i + 1,
                          OdPut(acc, Fmt(ItemKpiId(item.d)), safe_float(ItemValue(item.d), 0)))
                  ELSE ScoreMapOfList(items, i + 1, acc)
             ELSE IF item.kind = "tuple" /\ Len(item.xs) >= 2
             THEN ScoreMapOfList(items, i + 1,
                     OdPut(acc, Fmt(item.xs[1]), safe_float(item.xs[2], 0)))
             ELSE ScoreMapOfList(items, i + 1, acc)

ScoreMap(scores) ==
    IF scores.kind = "dict" THEN ScoreMapOfDict(scores.od, 1, <<>>)
    ELSE ScoreMapOfList(scores.items, 1, <<>>)

\* a benchmark row as compare_to_benchmark builds it
ComparatorRow(kpi_id, your_value, median, gap, p25, p75) ==
    [kpi_id |-> Str(kpi_id), your_value |-> Num(your_value),
     benchmark_median |-> Num(median), gap_vs_median |-> Num(gap),
     benchmark_p25 |-> p25, benchmark_p75 |-> p75]

\* the gap left unrounded
GapUnrounded(your_val, ref) == your_val - ref.median
\* gap = round(_safe_float(your_val) - _safe_float(ref.get("median", 0.0)), 2)
Gap(your_val, ref) == Round2(your_val - ref.median)

\* results.append({...}) for one compared KPI
RowFor(kpi_id, your_val, ref) ==
    ComparatorRow(kpi_id, Round2(your_val), Round2(ref.median), Gap(your_val, ref),
                  IF IsNone(ref.p25) THEN None ELSE Num(Round2(ref.p25.n)),
                  IF IsNone(ref.p75) THEN None ELSE Num(Round2(ref.p75.n)))

\* Case A: bench is a dict keyed by kpi_id; one row per score_map entry
\* whose key matches a benchmark key case-insensitively
RECURSIVE CompareDict(_, _, _)
CompareDict(score_map, bench_od, i) ==
    IF i > Len(score_map) THEN <<>>
    ELSE LET kpi_id == score_map[i][1]
             your_val == score_map[i][2]
             j == FirstNormIndex(bench_od, Norm(kpi_id), 1)
             ref_obj == IF j = 0 THEN None ELSE bench_od[j][2]
         IN  IF IsNone(ref_obj) THEN CompareDict(score_map, bench_od, i + 1)
             ELSE <<RowFor(kpi_id, your_val, get_ref(ref_obj))>>
                     \o CompareDict(score_map, bench_od, i + 1)

\* Case B: bench is a list of row dicts; one row per benchmark row whose
\* kpi id is a key of score_map
RECURSIVE CompareList(_, _, _)
CompareList(score_map, rows, i) ==
    IF i > Len(rows) THEN <<>>
    ELSE LET row == rows[i]
             kpi_id == Or(Get(row, "kpi_id", None), Or(Get(row, "kpi", None), Get(row, "id", None)))
             your_val == OdGet(score_map, Fmt(kpi_id))
         IN  IF ~Truthy(kpi_id) \/ IsNone(your_val)
             THEN CompareList(score_map, rows, i + 1)
             ELSE <<RowFor(Fmt(kpi_id), your_val.n, get_ref(PyDict(row)))>>
                     \o CompareList(score_map, rows, i + 1)

compare_to_benchmark(BENCHMARKS, scores, industry) ==
    LET bench == resolve_benchmarks_for_industry(BENCHMARKS, industry)
    IN  IF BenchFalsy(bench) THEN <<>>
        ELSE IF bench.kind = "dict" THEN CompareDict(ScoreMap(scores), bench.od, 1)
        ELSE CompareList(ScoreMap(scores), bench.rows, 1)

-----------------------------------------------------------------------------
(* core/swot_engine.py *)

\* item.get("kpi") or item.get("name")
ExtractKpi(d) == Or(Get(d, "kpi", None), Get(d, "name", None))

\* _extract_score_item: (kpi, score) of a dict or of a tuple of 3 or more
extract_score_item(item) ==
    IF item.kind = "dict" THEN <<ExtractKpi(item.d), Get(item.d, "score", None)>>
    ELSE IF item.kind = "tuple" /\ Len(item.xs) >= 3 THEN <<item.xs[1], item.xs[3]>>
    ELSE <<None, None>>

\* float(x) succeeds (it raises TypeError on None, ValueError on a
\* non-numeric string; the modelled strings are non-numeric)
FloatOk(x) == IsNum(x)

\* if score >= 4: strengths.append(...)
StrengthOf(kpi, score) ==
    IF score >= Milli(4) THEN <<<<"Strong performance in ", Fmt(kpi)>>>> ELSE <<>>
\* elif score <= 2: weaknesses.append(...)
WeaknessOf(kpi, score) ==
    IF score < Milli(4) /\ score <= Milli(2)
    THEN <<<<"Weak performance in ", Fmt(kpi)>>>> ELSE <<>>

\* the loop over scores
RECURSIVE SwotScores(_, _, _)
SwotScores(scores, i, acc) ==
    IF i > Len(scores) THEN acc
    ELSE LET e == extract_score_item(scores[i])
             kpi == e[1]
             raw_score == e[2]
         IN  IF ~Truthy(kpi) \/ ~FloatOk(raw_score) THEN SwotScores(scores, i + 1, acc)
             ELSE SwotScores(scores, i + 1,
                    [acc EXCEPT !.Strengths = @ \o StrengthOf(kpi, raw_score.n),
                                !.Weaknesses = @ \o WeaknessOf(kpi, raw_score.n)])

\* row.get("gap")
RowGap(row) == Get(row, "gap", None)
\* row.get("kpi")
RowKpi(row) == Get(row, "kpi", None)

\* the loop over benchmarks (rows are dicts)
RECURSIVE SwotBenchmarks(_, _, _)
SwotBenchmarks(benchmarks, i, acc) ==
    IF i > Len(benchmarks) THEN acc
    ELSE LET kpi == RowKpi(benchmarks[i])
             gap == RowGap(benchmarks[i])
         IN  IF ~FloatOk(gap) THEN SwotBenchmarks(benchmarks, i + 1, acc)
             ELSE SwotBenchmarks(benchmarks, i + 1,
                    [acc EXCEPT
                       !.Opportunities =
                          IF gap.n > 0
                          THEN Append(@, <<"Opportunity to improve ", Fmt(kpi), " versus industry">>)
                          ELSE @,
                       !.Threats =
                          IF gap.n <= 0 /\ gap.n < 0
                          THEN Append(@, <<"Underperformance risk in ", Fmt(kpi)>>)
                          ELSE @])

generate_swot(scores, benchmarks) ==
    SwotBenchmarks(benchmarks, 1,
        SwotScores(scores, 1,
            [Strengths |-> <<>>, Weaknesses |-> <<>>,
             Opportunities |-> <<>>, Threats |-> <<>>]))

-----------------------------------------------------------------------------
(* core/recommender.py *)

\* [prefix + x for x in items], in order
RECURSIVE Prefixed(_, _)
Prefixed(prefix, items) ==
    IF items = <<>> THEN <<>>
    ELSE <<<<prefix>> \o Head(items)>> \o Prefixed(prefix, Tail(items))

\* threats before weaknesses
RecsThreatsFirst(swot) ==
    Prefixed("Mitigate risk related to ", swot.Threats)
        \o Prefixed("Improve performance on ", swot.Weaknesses)
\* the two for-loops: weaknesses, then threats
Recs(swot) ==
    Prefixed("Improve performance on ", swot.Weaknesses)
        \o Prefixed("Mitigate risk related to ", swot.Threats)

generate_recommendations(swot) ==
    LET recs == Recs(swot)
    IN  IF recs = <<>> THEN <<<<"Maintain current performance level">>>> ELSE recs

-----------------------------------------------------------------------------
(* db/repository.py: tables reviews and kpi_inputs *)

\* a row of reviews: (id, company_name, industry, created_by, created_at)
ReviewRow(id, company_name, industry, created_by, created_at) ==
    <<id, Str(company_name), Str(industry), created_by, created_at>>

\* CURRENT_TIMESTAMP at the insertion of review id
Timestamp(id) == Str("2026-01-0" \o ToString(id))

\* get_review_by_id: the row as a tuple, or <<>> for None
get_review_by_id(rows, review_id) ==
    LET hit == SelectSeq(rows, LAMBDA r : r[1] = review_id)
    IN  IF hit = <<>> THEN <<>> ELSE hit[1]

\* SELECT kpi_id, value FROM kpi_inputs, without the WHERE review_id=?
GetInputsOfAllReviews(rows, review_id) ==
    [i \in 1..Len(rows) |-> <<rows[i][2], rows[i][3]>>]
\* get_kpi_inputs: {kpi_id: value} of the review's rows, in row order
get_kpi_inputs(rows, review_id) ==
    LET mine == SelectSeq(rows, LAMBDA r : r[1] = review_id)
    IN  [i \in 1..Len(mine) |-> <<mine[i][2], mine[i][3]>>]

\* save_kpi_value: DELETE the pair's rows, INSERT the new one, one commit
save_kpi_value(rows, review_id, kpi_id, value) ==
    Append(SelectSeq(rows, LAMBDA r : ~(r[1] = review_id /\ r[2] = kpi_id)),
           <<review_id, kpi_id, IF IsNone(value) THEN Num(0) ELSE value>>)

\* the order of TEXT values under SQLite's BINARY collation, for the strings
\* the model uses
StrRank(x) ==
    CASE x = "BHI" -> 1
      [] x = "CUS_NPS" -> 2
      [] x = "FIN_GROWTH" -> 3
      [] x = "FIN_MARGIN" -> 4
      [] x = "XX_UNKNOWN" -> 5
      [] OTHER -> 6

\* ORDER BY kpi_id ASC on rows whose first column is kpi_id
RECURSIVE OrderByKpiId(_)
OrderByKpiId(rows) ==
    IF rows = <<>> THEN <<>>
    ELSE LET i == CHOOSE i \in 1..Len(rows) :
                     \A j \in 1..Len(rows) :
                        \/ StrRank(rows[i][1]) < StrRank(rows[j][1])
                        \/ StrRank(rows[i][1]) = StrRank(rows[j][1]) /\ i <= j
         IN  <<rows[i]>> \o OrderByKpiId(SubSeq(rows, 1, i - 1) \o SubSeq(rows, i + 1, Len(rows)))

\* float(x) if x is not None else 0.0, 0.0 when float() raises
FloatOrZero(x) == IF IsNum(x) THEN x ELSE Num(0)

\* save_scores: the row (kpi_id, raw_value, score, pillar) inserted for one
\* item of results, or nothing for an item it skips
SavedScoreRow(item) ==
    IF item.kind = "dict"
    THEN LET kpi == Or(Get(item.d, "kpi_id", None), Get(item.d, "kpi", None))
             raw == IF IsNone(Get(item.d, "raw_value", None))
                    THEN Get(item.d, "value", None)
                    ELSE item.d["raw_value"]
             score == Get(item.d, "score", Num(0))
             pillar == Get(item.d, "pillar", Str("UNKNOWN"))
         IN  << <<Fmt(kpi), FloatOrZero(raw), FloatOrZero(score),
                  Str(Fmt(Or(pillar, Str("UNKNOWN"))))>> >>
    ELSE IF item.kind = "tuple" /\ Len(item.xs) >= 4
    THEN << <<Fmt(item.xs[1]), FloatOrZero(item.xs[2]), FloatOrZero(item.xs[3]),
              Str(Fmt(Or(item.xs[4], Str("UNKNOWN"))))>> >>
    ELSE <<>>

\* save_scores(review_id, results): the review's rows of table scores after
\* the DELETE and the INSERTs
RECURSIVE save_scores(_)
save_scores(results) ==
    IF results = <<>> THEN <<>>
    ELSE SavedScoreRow(Head(results)) \o save_scores(Tail(results))

\* get_scores(review_id) on the review's rows of table scores
get_scores(rows) ==
    LET sorted == OrderByKpiId(rows)
    IN  [i \in 1..Len(sorted) |->
            DictItem([kpi |-> Str(sorted[i][1]), raw_value |-> sorted[i][2],
                      score |-> sorted[i][3], pillar |-> sorted[i][4]])]

-----------------------------------------------------------------------------
(* core/report_engine.py *)

\* the normalization of compute_scores' records into {kpi, value, score, pillar}
NormalizeItem(item) ==
    IF item.kind = "dict"
    THEN <<DictItem([kpi |-> Or(Get(item.d, "kpi_id", None), Get(item.d, "kpi", None)),
                     value |-> Or(Get(item.d, "value", None), Get(item.d, "raw_value", None)),
                     score |-> Get(item.d, "score", None),
                     pillar |-> Get(item.d, "pillar", None)])>>
    ELSE IF item.kind = "tuple" /\ Len(item.xs) >= 4
    THEN <<DictItem([kpi |-> item.xs[1], value |-> item.xs[2],
                     score |-> item.xs[3], pillar |-> item.xs[4]])>>
    ELSE <<>>

RECURSIVE NormalizeScores(_)
NormalizeScores(scores) ==
    IF scores = <<>> THEN <<>>
    ELSE NormalizeItem(Head(scores)) \o NormalizeScores(Tail(scores))

\* the two checks in the order inputs first, review second
PayloadErrorInputsFirst(review, inputs) ==
    IF inputs = <<>> THEN Raise("ValueError", "No KPI inputs found")
    ELSE IF review = <<>> THEN Raise("ValueError", "Invalid review ID")
    ELSE Return(<<>>)
\* `if not review: raise ValueError("Invalid review ID")`, then
\* `if not inputs: raise ValueError("No KPI inputs found")`
PayloadError(review, inputs) ==
    IF review = <<>> THEN Raise("ValueError", "Invalid review ID")
    ELSE IF inputs = <<>> THEN Raise("ValueError", "No KPI inputs found")
    ELSE Return(<<>>)

\* a meta that lacks the engine's name
MetaWithoutEngine(generated_at) == [generated_at |-> generated_at, version |-> "2.0"]
\* meta = {"generated_at": datetime.now().isoformat(), "version": "2.0",
\*         "engine": "Chumcred StratIQ"}
Meta(generated_at) ==
    [generated_at |-> generated_at, version |-> "2.0", engine |-> "Chumcred StratIQ"]

\* company_info = {"review_id": review[0], ..., "created_at": review[3]}
CompanyInfo(review) ==
    [review_id |-> review[1], company_name |-> review[2],
     industry |-> review[3], created_at |-> review[4]]

\* payload = {...}, from the locals of generate_report_payload
Payload(company_info, inputs, normalized_scores, computed, benchmarks, swot, recommendations, meta) ==
    [company_info |-> company_info,
     kpi_inputs |-> inputs,
     scores |-> normalized_scores,
     pillars |-> computed.pillar_scores,
     bhi |-> Round2(computed.bhi),
     benchmarks |-> benchmarks,
     swot |-> swot,
     recommendations |-> recommendations,
     meta |-> meta]

\* generate_report_payload, on the tables and configuration it reads
generate_report_payload(review_rows, input_rows, cfg, review_id) ==
    LET review == get_review_by_id(review_rows, review_id)
        inputs == get_kpi_inputs(input_rows, review_id)
        check == PayloadError(review, inputs)
    IN  IF check.raised # "" THEN check
        ELSE
        LET company_info == CompanyInfo(review)
            computed == compute_scores(inputs, cfg.kpis, cfg.pillar_weights)
        IN  IF computed.raised # "" THEN computed
            ELSE
            LET normalized_scores == NormalizeScores(computed.value.results)
                benchmarks == compare_to_benchmark(cfg.BENCHMARKS,
                                  ScoresList(normalized_scores), company_info.industry.s)
                swot == generate_swot(normalized_scores, benchmarks)
                recommendations == generate_recommendations(swot)
                meta == Meta("now")
            IN  Return(Payload(company_info, inputs, normalized_scores, computed.value,
                               benchmarks, swot, recommendations, meta))

-----------------------------------------------------------------------------
(* core/narrative_engine.py *)

\* sep.join(items): the items' pieces with the separator between items
RECURSIVE Join(_, _)
Join(sep, items) ==
    IF items = <<>> THEN <<>>
    ELSE IF Len(items) = 1 THEN items[1]
    ELSE items[1] \o <<sep>> \o Join(sep, Tail(items))

\* the health band with the bounds exclusive
HealthOfStrict(bhi) ==
    IF bhi > Milli(4) THEN "strong" ELSE IF bhi > Milli(3) THEN "moderate" ELSE "weak"
\* if bhi >= 4 / elif bhi >= 3 / else
HealthOf(bhi) ==
    IF bhi >= Milli(4) THEN "strong" ELSE IF bhi >= Milli(3) THEN "moderate" ELSE "weak"

\* the priority ladder with the limits 3 and 4 in the lower band
PriorityOfInclusive(bhi) ==
    IF bhi <= Milli(3)
    THEN <<"Immediate management attention is required to ",
           "address structural and operational weaknesses.">>
    ELSE IF bhi <= Milli(4)
    THEN <<"Management should prioritize targeted performance ",
           "improvements to strengthen competitiveness.">>
    ELSE <<"Management should focus on sustaining performance ",
           "and pursuing strategic expansion opportunities.">>
\* if bhi < 3 / elif bhi < 4 / else
PriorityOf(bhi) ==
    IF bhi < Milli(3)
    THEN <<"Immediate management attention is required to ",
           "address structural and operational weaknesses.">>
    ELSE IF bhi < Milli(4)
    THEN <<"Management should prioritize targeted performance ",
           "improvements to strengthen competitiveness.">>
    ELSE <<"Management should focus on sustaining performance ",
           "and pursuing strategic expansion opportunities.">>

\* `if items: lead + "; ".join(items) + "." else: none_text`
BucketText(items, lead, none_text) ==
    IF items # <<>> THEN <<lead>> \o Join("; ", items) \o <<".">> ELSE none_text

generate_executive_summary(payload) ==
    LET company == payload.company_info.company_name
        industry == payload.company_info.industry
        bhi == payload.bhi
        swot == payload.swot
    IN  [overview |->
            <<Fmt(company), " operates within the ", Fmt(industry), " sector ",
              "and currently demonstrates a ", HealthOf(bhi), " level of ",
              "overall business health, with a Business Health Index ",
              "(BHI) of ", Fmt(Num(bhi)), ".">>,
         strengths |->
            BucketText(swot.Strengths, "Key strengths include: ",
                       <<"No major operational or financial strengths ",
                         "were identified during this assessment.">>),
         weaknesses |->
            BucketText(swot.Weaknesses, "Key weaknesses include: ",
                       <<"No critical weaknesses were identified, ",
                         "indicating relatively stable internal performance.">>),
         opportunities |->
            BucketText(swot.Opportunities, "Key growth opportunities include: ",
                       <<"Current market positioning indicates limited ",
                         "short-term external growth opportunities.">>),
         threats |->
            BucketText(swot.Threats, "Key external threats include: ",
                       <<"No immediate external threats were identified ",
                         "that could significantly impact operations.">>),
         priority_actions |-> PriorityOf(bhi)]

-----------------------------------------------------------------------------
(* core/advisor_engine.py: ask_business_advisor, which calls               *)
(* generate_report_payload and then generate_executive_summary             *)

\* the locals of generate_report_payload and ask_business_advisor while a
\* call is in progress; calls lists the pipeline functions called so far
NoFrame ==
    [calls |-> <<>>, company_info |-> <<>>, inputs |-> <<>>, computed |-> <<>>,
     scores |-> <<>>, benchmarks |-> <<>>, swot |-> <<>>, recommendations |-> <<>>,
     payload |-> <<>>, narrative |-> <<>>, answer |-> <<>>]

\* the statements of the two functions in another order: the SWOT before
\* the benchmarks
NextStageSwotFirst(stage) ==
    CASE stage = "scores" -> "swot"
      [] stage = "swot" -> "benchmarks"
      [] stage = "benchmarks" -> "recommendations"
      [] stage = "recommendations" -> "payload"
      [] stage = "payload" -> "narrative"
      [] stage = "narrative" -> "answer"
      [] OTHER -> "done"
\* the statement that follows each one: report_engine.py lines 59, 88, 97,
\* 103, 119-131, then advisor_engine.py lines 22 and 24-117
NextStage(stage) ==
    CASE stage = "scores" -> "benchmarks"
      [] stage = "benchmarks" -> "swot"
      [] stage = "swot" -> "recommendations"
      [] stage = "recommendations" -> "payload"
      [] stage = "payload" -> "narrative"
      [] stage = "narrative" -> "answer"
      [] OTHER -> "done"

\* any(k in q for k in words), q given as the set of keywords it contains
AnyIn(q, words) == q \cap words # {}

\* recs[:2]
FirstTwo(xs) == SubSeq(xs, 1, IF Len(xs) < 2 THEN Len(xs) ELSE 2)

\* the answer ask_business_advisor picks for the question
AnswerOf(payload, q) ==
    IF AnyIn(q, {"profit", "ebitda", "margin", "profitability"})
    THEN IF payload.bhi >= Milli(4)
         THEN <<"Profitability is strong and above industry expectations. ",
                "Management should focus on sustaining cost discipline ",
                "and revenue optimization.">>
         ELSE IF payload.bhi >= Milli(3)
         THEN <<"Profitability is moderate. ",
                "There is room for improvement through better cost control ",
                "and revenue diversification.">>
         ELSE <<"Profitability is weak and requires urgent attention. ",
                "A detailed cost restructuring and pricing review is recommended.">>
    ELSE IF AnyIn(q, {"growth", "revenue", "sales"})
    THEN IF payload.recommendations # <<>>
         THEN <<"Revenue growth can be improved by focusing on the following: ">>
                 \o Join(" ", FirstTwo(payload.recommendations))
         ELSE <<"Growth opportunities are currently limited based on available data.">>
    ELSE IF AnyIn(q, {"risk", "threat", "compliance"})
    THEN IF payload.swot.Threats # <<>>
         THEN <<"Key business risks include: ">> \o Join("; ", payload.swot.Threats)
         ELSE <<"No major operational or regulatory risks were identified ",
                "in the current assessment.">>
    ELSE IF AnyIn(q, {"operation", "cost", "efficiency"})
    THEN IF payload.swot.Weaknesses # <<>>
         THEN <<"Operational efficiency can be improved by addressing: ">>
                 \o Join("; ", payload.swot.Weaknesses)
         ELSE <<"Operations are currently stable with no major inefficiencies.">>
    ELSE <<"Your question requires deeper strategic review. ",
           "Please consult the executive summary and KPI dashboard ",
           "for more detailed insights.">>

-----------------------------------------------------------------------------
(* Bounds of the model *)

MaxRules == 2      \* rules in a generated rule list
MaxInputs == 3     \* entries of a kpi_inputs dict
MaxItems == 2      \* score records in a list handed to the SWOT engine
MaxSwotItems == 2  \* items of one SWOT bucket handed to the recommender
MaxReviews == 2    \* rows of table reviews
MaxRows == 2       \* rows of table kpi_inputs
MaxScored == 2     \* scored KPIs handed to the comparator

\* sequences over S of length 0..n
SeqsUpTo(S, n) == UNION {[1..m -> S] : m \in 0..n}
\* the sequences of SeqsUpTo whose first components are pairwise distinct
DistinctKeys(s) == \A i, j \in 1..Len(s) : i # j => s[i][1] # s[j][1]

-----------------------------------------------------------------------------
(* Configurations and inputs the behaviours draw from *)

\* Scenario A of the specification: the rules of FIN_MARGIN
MarginRules ==
    << Rule(None, Num(0), Num(Milli(1))),
       Rule(Num(0), Num(Milli(10)), Num(Milli(2))),
       Rule(Num(Milli(10)), Num(Milli(20)), Num(Milli(3))),
       Rule(Num(Milli(20)), None, Num(Milli(5))) >>

GrowthRules ==
    << Rule(None, Num(Milli(5)), Num(Milli(1))),
       Rule(Num(Milli(5)), Num(Milli(15)), Num(Milli(3))),
       Rule(Num(Milli(15)), None, Num(Milli(4))) >>

\* no rule below 0: a negative value matches nothing
NpsRules ==
    << Rule(Num(0), Num(Milli(10)), Num(Milli(2))),
       Rule(Num(Milli(10)), None, Num(Milli(4))) >>

KpisFull ==
    [k \in {"FIN_MARGIN", "FIN_GROWTH", "CUS_NPS"} |->
        IF k = "FIN_MARGIN" THEN Cfg("FINANCIAL", MarginRules)
        ELSE IF k = "FIN_GROWTH" THEN Cfg("FINANCIAL", GrowthRules)
        ELSE Cfg("CUSTOMER", NpsRules)]

KpisSmall ==
    [k \in {"FIN_MARGIN", "CUS_NPS"} |->
        IF k = "FIN_MARGIN" THEN Cfg("FINANCIAL", MarginRules)
        ELSE Cfg("OPERATIONS", NpsRules)]

KpiConfigs == {KpisFull, KpisSmall}

WeightsHalf == [p \in {"FINANCIAL", "CUSTOMER"} |-> 500]
WeightsFinOnly == [p \in {"FINANCIAL"} |-> Milli(1)]
WeightsThree ==
    [p \in {"FINANCIAL", "CUSTOMER", "OPERATIONS"} |->
        IF p = "OPERATIONS" THEN 400 ELSE 300]

WeightConfigs == {WeightsHalf, WeightsFinOnly, WeightsThree}

\* the KPI ids a caller may pass; XX_UNKNOWN is in no definition file
InputKpiIds == {"FIN_MARGIN", "FIN_GROWTH", "CUS_NPS", "XX_UNKNOWN"}
InputValues == {None, Num(Milli(0 - 5)), Num(Milli(5)), Num(Milli(10)), Num(Milli(25))}

InputDicts ==
    {s \in SeqsUpTo(InputKpiIds \X InputValues, MaxInputs) : DistinctKeys(s)}

ScoreValues ==
    {None} \cup {Num(Milli(n)) : n \in {0 - 5, 0, 5, 10, 15, 20, 25}}
GeneratedRules ==
    {Rule(mn, mx, sc) : mn \in {None, Num(0), Num(Milli(10))},
                        mx \in {None, Num(Milli(10)), Num(Milli(20))},
                        sc \in {Num(Milli(1)), Num(Milli(2))}}
RuleLists == SeqsUpTo(GeneratedRules, MaxRules) \cup {MarginRules}

-----------------------------------------------------------------------------
(* The store is untouched while a single function is exercised *)

NoReport == [status |-> "none"]

StoreEmpty ==
    /\ reviews = <<>>
    /\ kpi_inputs = <<>>
    /\ next_id = 1
    /\ report = NoReport

StoreUnchanged == UNCHANGED <<reviews, kpi_inputs, next_id, report>>

-----------------------------------------------------------------------------
(* score_value exercised on its own *)

InitScore ==
    /\ mode = "score_value"
    /\ pc = "call"
    /\ args \in [value : ScoreValues, rules : RuleLists]
    /\ ret = NoCall
    /\ StoreEmpty

CallScoreValue ==
    /\ mode = "score_value"
    /\ pc = "call"
    /\ ret' = score_value(args.value, args.rules)
    /\ pc' = "done"
    /\ UNCHANGED <<mode, args>>
    /\ StoreUnchanged

NextScore == CallScoreValue

SpecScore == InitScore /\ [][NextScore]_vars

-----------------------------------------------------------------------------
(* compute_scores exercised on its own: the two load_* calls read the      *)
(* configuration files, kpi_inputs is the argument                         *)

InitCompute ==
    /\ mode = "compute_scores"
    /\ pc = "call"
    /\ args \in [kpi_inputs : InputDicts, kpis : KpiConfigs,
                 pillar_weights : WeightConfigs]
    /\ ret = NoCall
    /\ StoreEmpty

CallComputeScores ==
    /\ mode = "compute_scores"
    /\ pc = "call"
    /\ ret' = compute_scores(args.kpi_inputs, args.kpis, args.pillar_weights)
    /\ pc' = "done"
    /\ UNCHANGED <<mode, args>>
    /\ StoreUnchanged

NextCompute == CallComputeScores

SpecCompute == InitCompute /\ [][NextCompute]_vars

-----------------------------------------------------------------------------
(* generate_swot exercised on its own, on score records in each shape the  *)
(* repository hands around                                                 *)

\* the record shapes: compute_scores' dict, report_engine's normalized dict,
\* get_scores' row dict, the Scoring Dashboard's row dict, and the tuples
\* (kpi, value, score) and (kpi, value, score, pillar)
Shapes == {"engine", "normalized", "stored", "dashboard", "tuple3", "tuple4"}

ItemOf(shape, kpi, score) ==
    LET value == Num(Milli(5))
        pillar == Str("FINANCIAL")
    IN  IF shape = "engine"
        THEN DictItem([kpi_id |-> Str(kpi), value |-> value, score |-> score, pillar |-> pillar])
        ELSE IF shape = "normalized"
        THEN DictItem([kpi |-> Str(kpi), value |-> value, score |-> score, pillar |-> pillar])
        ELSE IF shape = "stored"
        THEN DictItem([kpi |-> Str(kpi), raw_value |-> value, score |-> score, pillar |-> pillar])
        ELSE IF shape = "dashboard"
        THEN DictItem([kpi_id |-> Str(kpi), name |-> Str("Display name"), pillar |-> pillar,
                       value |-> value, score |-> score])
        ELSE IF shape = "tuple3"
        THEN TupleItem(<<Str(kpi), value, score>>)
        ELSE TupleItem(<<Str(kpi), value, score, pillar>>)

ItemsOf(shape, pairs) == [i \in 1..Len(pairs) |-> ItemOf(shape, pairs[i][1], pairs[i][2])]

SwotKpiIds == {"FIN_MARGIN", "CUS_NPS"}
SwotScoreValues == {None, Num(Milli(1)), Num(Milli(2)), Num(Milli(3)), Num(Milli(4))}

\* benchmark lists handed to generate_swot: comparator rows, and rows under
\* the keys generate_swot reads
SwotBenchmarkLists ==
    {<<>>}
    \cup {<<ComparatorRow("FIN_MARGIN", Milli(3) + g, Milli(3), g, None, None)>> :
             g \in {0 - 500, 0, 500}}
    \cup {<<[kpi |-> Str("FIN_MARGIN"), gap |-> Num(g)]>> : g \in {0 - 500, 0, 500}}

InitSwot ==
    /\ mode = "generate_swot"
    /\ pc = "call"
    /\ \E shape \in Shapes :
       \E pairs \in SeqsUpTo(SwotKpiIds \X SwotScoreValues, MaxItems) :
       \E b \in SwotBenchmarkLists :
          args = [shape |-> shape, pairs |-> pairs,
                  scores |-> ItemsOf(shape, pairs), benchmarks |-> b]
    /\ ret = NoCall
    /\ StoreEmpty

CallGenerateSwot ==
    /\ mode = "generate_swot"
    /\ pc = "call"
    /\ ret' = Return(generate_swot(args.scores, args.benchmarks))
    /\ pc' = "done"
    /\ UNCHANGED <<mode, args>>
    /\ StoreUnchanged

NextSwot == CallGenerateSwot

SpecSwot == InitSwot /\ [][NextSwot]_vars

-----------------------------------------------------------------------------
(* generate_recommendations exercised on its own *)

WeaknessTexts == {<<"Weak performance in ", k>> : k \in SwotKpiIds}
ThreatTexts == {<<"Underperformance risk in ", k>> : k \in SwotKpiIds \cup {"None"}}

InitRecommend ==
    /\ mode = "generate_recommendations"
    /\ pc = "call"
    /\ \E w \in SeqsUpTo(WeaknessTexts, MaxSwotItems) :
       \E t \in SeqsUpTo(ThreatTexts, MaxSwotItems) :
          args = [swot |-> [Strengths |-> <<>>, Weaknesses |-> w,
                            Opportunities |-> <<>>, Threats |-> t]]
    /\ ret = NoCall
    /\ StoreEmpty

CallGenerateRecommendations ==
    /\ mode = "generate_recommendations"
    /\ pc = "call"
    /\ ret' = Return(generate_recommendations(args.swot))
    /\ pc' = "done"
    /\ UNCHANGED <<mode, args>>
    /\ StoreUnchanged

NextRecommend == CallGenerateRecommendations

SpecRecommend == InitRecommend /\ [][NextRecommend]_vars

-----------------------------------------------------------------------------
(* The application: reviews are created, KPI values are saved, reports are *)
(* assembled.  args holds the configuration the process runs with: the two *)
(* files of core/kpi_registry.py and the benchmark store.                  *)

\* BENCHMARKS[industry][kpi_id] = number
BenchmarksOfNumbers ==
    BenchDict(<< <<"Telecom", BenchDict(<< <<"FIN_MARGIN", Num(Milli(15))>>,
                                           <<"FIN_GROWTH", Num(Milli(10))>> >>)>>,
                 <<"Banking", BenchDict(<< <<"FIN_MARGIN", Num(Milli(20))>> >>)>> >>)

\* BENCHMARKS[industry][kpi_id] = {"median": .., "p25": .., "p75": ..}
BenchmarksOfDicts ==
    BenchDict(<< <<"telecom",
                   BenchDict(<< <<"fin_margin",
                                  PyDict([median |-> Num(Milli(15)), p25 |-> Num(Milli(5)),
                                          p75 |-> Num(Milli(25))])>>,
                                <<"cus_nps", PyDict([p50 |-> Num(Milli(20))])>> >>)>> >>)

\* [{"industry": .., "kpi_id": .., "median": ..}, ...]
BenchmarksOfRows ==
    BenchList(<< [industry |-> Str("Telecom"), kpi_id |-> Str("FIN_MARGIN"),
                  median |-> Num(Milli(15) + 4)],
                 [industry |-> Str("Banking"), kpi_id |-> Str("FIN_MARGIN"),
                  median |-> Num(Milli(20))],
                 [industry |-> Str("Telecom"), kpi_id |-> Str("CUS_NPS"),
                  median |-> Num(Milli(5))] >>)

BenchmarkStores == {NoBenchmarks, BenchmarksOfNumbers, BenchmarksOfDicts, BenchmarksOfRows}

\* what the New Review form and the Data Input / Financial Analyzer pages send
Industries == {"Telecom", "Energy"}
\* the (kpi_id, value) pairs the pages save
SavedInputs ==
    { <<"FIN_MARGIN", Num(0)>>, <<"FIN_MARGIN", Num(Milli(25))>>,
      <<"CUS_NPS", Num(Milli(20))>>, <<"XX_UNKNOWN", Num(Milli(15))>> }

\* str.strip() of the strings the model uses
Strip(x) == IF x = " TELECOM " THEN "TELECOM" ELSE x

ReviewIds == {reviews[i][1] : i \in 1..Len(reviews)}

Init ==
    /\ mode = "app"
    /\ pc = "idle"
    /\ args \in [kpis : {KpisFull}, pillar_weights : {WeightsHalf},
                 BENCHMARKS : BenchmarkStores]
    /\ ret = NoCall
    /\ reviews = <<>>
    /\ kpi_inputs = <<>>
    /\ next_id = 1
    /\ report = NoReport

\* pages/2_New_Review.py: create_review(company_name=.., industry=..)
CreateReview ==
    /\ mode = "app"
    /\ Len(reviews) < MaxReviews
    /\ \E industry \in Industries :
          reviews' = Append(reviews,
                        ReviewRow(next_id, Strip("Acme Ltd"), Strip(industry), None,
                                  Timestamp(next_id)))
    /\ next_id' = next_id + 1
    /\ report' = NoReport
    /\ UNCHANGED <<mode, pc, args, ret, kpi_inputs>>

\* save_kpi_value(review_id, kpi_id, value) for a review picked on a page
SaveKpiValue ==
    /\ mode = "app"
    /\ \E review_id \in ReviewIds, input \in SavedInputs :
          /\ Len(save_kpi_value(kpi_inputs, review_id, input[1], input[2])) <= MaxRows
          /\ kpi_inputs' = save_kpi_value(kpi_inputs, review_id, input[1], input[2])
    /\ report' = NoReport
    /\ UNCHANGED <<mode, pc, args, ret, reviews, next_id>>

\* generate_report_payload(review_id), for an id that may not exist
GenerateReportPayload ==
    /\ mode = "app"
    /\ \E review_id \in 1..(MaxReviews + 1) :
          report' = [status |-> "done", review_id |-> review_id,
                     out |-> generate_report_payload(reviews, kpi_inputs, args, review_id)]
    /\ UNCHANGED <<mode, pc, args, ret, reviews, kpi_inputs, next_id>>

Next == CreateReview \/ SaveKpiValue \/ GenerateReportPayload

Spec == Init /\ [][Next]_vars

-----------------------------------------------------------------------------
(* compare_to_benchmark exercised on its own: BENCHMARKS is the store the  *)
(* module imported, scores and industry are the arguments                  *)

\* a store whose reference is keyed by index name (Scenario C of the
\* specification: the median of BHI for telecom is 3.0)
BenchmarksOfIndexes ==
    BenchDict(<< <<"telecom", BenchDict(<< <<"BHI", Num(Milli(3))>> >>)>> >>)

CompareStores == BenchmarkStores \cup {BenchmarksOfIndexes}

\* the industry as stored, padded and upper-cased, abbreviated, and one no
\* store knows
CompareIndustries == {"Telecom", " TELECOM ", "telco", "Energy"}

\* scored KPIs <<kpi_id, raw value, score, pillar>>: FIN_MARGIN under
\* MarginRules, CUS_NPS under NpsRules, and the index BHI = 3.4
ScoredEntries ==
    { <<"FIN_MARGIN", Num(0), Num(Milli(1)), "FINANCIAL">>,
      <<"FIN_MARGIN", Num(Milli(25)), Num(Milli(5)), "FINANCIAL">>,
      <<"CUS_NPS", Num(Milli(20)), Num(Milli(4)), "CUSTOMER">>,
      <<"BHI", Num(3400), Num(3400), "INDEX">> }

ScoredLists == {s \in SeqsUpTo(ScoredEntries, MaxScored) : DistinctKeys(s)}

\* compute_scores' record of an entry
EngineItem(e) == DictItem(ScoreRecord(e[1], e[2], e[3], e[4]))

\* the shapes callers hand over: {kpi_id: value}, lists of 2/3/4-tuples,
\* compute_scores' records, report_engine's normalized records and the rows
\* of get_scores (pages/5_Benchmarking.py, pages/6_SWOT.py)
CompareShapes ==
    {"mapping", "tuple2", "tuple3", "tuple4", "engine", "normalized", "stored"}

ScoresIn(shape, entries) ==
    LET engine == [i \in 1..Len(entries) |-> EngineItem(entries[i])]
    IN  CASE shape = "mapping" ->
               ScoresDict([i \in 1..Len(entries) |-> <<entries[i][1], entries[i][2]>>])
          [] shape = "tuple2" ->
               ScoresList([i \in 1..Len(entries) |->
                              TupleItem(<<Str(entries[i][1]), entries[i][2]>>)])
          [] shape = "tuple3" ->
               ScoresList([i \in 1..Len(entries) |->
                              TupleItem(<<Str(entries[i][1]), entries[i][2], entries[i][3]>>)])
          [] shape = "tuple4" ->
               ScoresList([i \in 1..Len(entries) |->
                              TupleItem(<<Str(entries[i][1]), entries[i][2], entries[i][3],
                                          Str(entries[i][4])>>)])
          [] shape = "engine" -> ScoresList(engine)
          [] shape = "normalized" -> ScoresList(NormalizeScores(engine))
          [] OTHER -> ScoresList(get_scores(save_scores(engine)))

InitCompare ==
    /\ mode = "compare_to_benchmark"
    /\ pc = "call"
    /\ \E store \in CompareStores, industry \in CompareIndustries :
       \E shape \in CompareShapes, entries \in ScoredLists :
          args = [BENCHMARKS |-> store, industry |-> industry, shape |-> shape,
                  entries |-> entries, scores |-> ScoresIn(shape, entries)]
    /\ ret = NoCall
    /\ StoreEmpty

CallCompareToBenchmark ==
    /\ mode = "compare_to_benchmark"
    /\ pc = "call"
    /\ ret' = Return(compare_to_benchmark(args.BENCHMARKS, args.scores, args.industry))
    /\ pc' = "done"
    /\ UNCHANGED <<mode, args>>
    /\ StoreUnchanged

NextCompare == CallCompareToBenchmark

SpecCompare == InitCompare /\ [][NextCompare]_vars

-----------------------------------------------------------------------------
(* generate_executive_summary exercised on its own, on reports around the  *)
(* band limits 3 and 4                                                     *)

NarrateBhis == {0, 2990, Milli(3), 3010, 3400, 3990, Milli(4), 4010, Milli(5)}
StrengthTexts == {<<"Strong performance in ", k>> : k \in SwotKpiIds}

InitNarrate ==
    /\ mode = "generate_executive_summary"
    /\ pc = "call"
    /\ \E bhi \in NarrateBhis, industry \in Industries :
       \E s \in SeqsUpTo(StrengthTexts, MaxSwotItems) :
       \E w \in SeqsUpTo(WeaknessTexts, MaxSwotItems) :
          args = [report |->
                     [company_info |-> [company_name |-> Str("Acme Ltd"),
                                        industry |-> Str(industry)],
                      bhi |-> bhi,
                      swot |-> [Strengths |-> s, Weaknesses |-> w,
                                Opportunities |-> <<>>, Threats |-> <<>>]]]
    /\ ret = NoCall
    /\ StoreEmpty

CallGenerateExecutiveSummary ==
    /\ mode = "generate_executive_summary"
    /\ pc = "call"
    /\ ret' = Return(generate_executive_summary(args.report))
    /\ pc' = "done"
    /\ UNCHANGED <<mode, args>>
    /\ StoreUnchanged

NextNarrate == CallGenerateExecutiveSummary

SpecNarrate == InitNarrate /\ [][NextNarrate]_vars

-----------------------------------------------------------------------------
(* ask_business_advisor exercised statement by statement, on a store with  *)
(* one review: pc is the statement about to run, ret.value the locals      *)

\* the question, as the set of the advisor's keywords it contains
Questions == {{}, {"profit"}, {"growth"}, {"risk"}, {"cost"}, {"margin", "risk"}}

\* rows of kpi_inputs for review 1, one per KPI
AdvisorInputRows ==
    {s \in SeqsUpTo({<<1, input[1], input[2]>> : input \in SavedInputs}, MaxRows) :
        \A i, j \in 1..Len(s) : i # j => s[i][2] # s[j][2]}

InitAdvisor ==
    /\ mode = "ask_business_advisor"
    /\ pc = "call"
    /\ args \in [kpis : {KpisFull}, pillar_weights : {WeightsHalf},
                 BENCHMARKS : BenchmarkStores, review_id : {1, 2},
                 question : Questions]
    /\ ret = NoCall
    /\ \E industry \in Industries :
          reviews = <<ReviewRow(1, "Acme Ltd", industry, None, Timestamp(1))>>
    /\ kpi_inputs \in AdvisorInputRows
    /\ next_id = 2
    /\ report = NoReport

\* report_engine.py lines 34-53: the review, the inputs and the two checks
AdvisorCall ==
    /\ mode = "ask_business_advisor"
    /\ pc = "call"
    /\ LET review == get_review_by_id(reviews, args.review_id)
           inputs == get_kpi_inputs(kpi_inputs, args.review_id)
           check == PayloadError(review, inputs)
       IN  IF check.raised # ""
           THEN ret' = check /\ pc' = "raised"
           ELSE /\ ret' = Return([NoFrame EXCEPT !.company_info = CompanyInfo(review),
                                                 !.inputs = inputs])
                /\ pc' = "scores"
    /\ UNCHANGED <<mode, args>>
    /\ StoreUnchanged

\* lines 59-82: compute_scores and the normalization of its records
StageScores ==
    /\ mode = "ask_business_advisor"
    /\ pc = "scores"
    /\ LET computed == compute_scores(ret.value.inputs, args.kpis, args.pillar_weights)
       IN  IF computed.raised # ""
           THEN ret' = computed /\ pc' = "raised"
           ELSE /\ ret' = Return([ret.value EXCEPT
                                    !.computed = computed.value,
                                    !.scores = NormalizeScores(computed.value.results),
                                    !.calls = Append(@, "compute_scores")])
                /\ pc' = NextStage("scores")
    /\ UNCHANGED <<mode, args>>
    /\ StoreUnchanged

\* lines 88-91
StageBenchmarks ==
    /\ mode = "ask_business_advisor"
    /\ pc = "benchmarks"
    /\ ret' = Return([ret.value EXCEPT
                        !.benchmarks = compare_to_benchmark(args.BENCHMARKS,
                                           ScoresList(ret.value.scores),
                                           ret.value.company_info.industry.s),
                        !.calls = Append(@, "compare_to_benchmark")])
    /\ pc' = NextStage("benchmarks")
    /\ UNCHANGED <<mode, args>>
    /\ StoreUnchanged

\* line 97
StageSwot ==
    /\ mode = "ask_business_advisor"
    /\ pc = "swot"
    /\ ret' = Return([ret.value EXCEPT
                        !.swot = generate_swot(ret.value.scores, ret.value.benchmarks),
                        !.calls = Append(@, "generate_swot")])
    /\ pc' = NextStage("swot")
    /\ UNCHANGED <<mode, args>>
    /\ StoreUnchanged

\* line 103
StageRecommendations ==
    /\ mode = "ask_business_advisor"
    /\ pc = "recommendations"
    /\ ret' = Return([ret.value EXCEPT
                        !.recommendations = generate_recommendations(ret.value.swot),
                        !.calls = Append(@, "generate_recommendations")])
    /\ pc' = NextStage("recommendations")
    /\ UNCHANGED <<mode, args>>
    /\ StoreUnchanged

\* lines 109-131: meta, payload, return payload (to advisor_engine.py line 20)
ReturnPayload ==
    /\ mode = "ask_business_advisor"
    /\ pc = "payload"
    /\ LET f == ret.value
       IN  ret' = Return([f EXCEPT
                            !.payload = Payload(f.company_info, f.inputs, f.scores,
                                                f.computed, f.benchmarks, f.swot,
                                                f.recommendations, Meta("now"))])
    /\ pc' = NextStage("payload")
    /\ UNCHANGED <<mode, args>>
    /\ StoreUnchanged

\* advisor_engine.py line 22
StageNarrative ==
    /\ mode = "ask_business_advisor"
    /\ pc = "narrative"
    /\ ret' = Return([ret.value EXCEPT
                        !.narrative = generate_executive_summary(ret.value.payload),
                        !.calls = Append(@, "generate_executive_summary")])
    /\ pc' = NextStage("narrative")
    /\ UNCHANGED <<mode, args>>
    /\ StoreUnchanged

\* advisor_engine.py lines 24-117
AdvisorAnswer ==
    /\ mode = "ask_business_advisor"
    /\ pc = "answer"
    /\ ret' = Return([ret.value EXCEPT
                        !.answer = AnswerOf(ret.value.payload, args.question)])
    /\ pc' = NextStage("answer")
    /\ UNCHANGED <<mode, args>>
    /\ StoreUnchanged

NextAdvisor ==
    \/ AdvisorCall
    \/ StageScores
    \/ StageBenchmarks
    \/ StageSwot
    \/ StageRecommendations
    \/ ReturnPayload
    \/ StageNarrative
    \/ AdvisorAnswer

SpecAdvisor == InitAdvisor /\ [][NextAdvisor]_vars

-----------------------------------------------------------------------------
(* Properties of score_value and compute_scores *)

ComputeReturned == mode = "compute_scores" /\ pc = "done" /\ ret.raised = ""

\* v lies within rule r: a null bound is unbounded, both bounds are inclusive
WithinRule(v, r) ==
    /\ IsNone(r.min) \/ r.min.n <= v.n
    /\ IsNone(r.max) \/ v.n <= r.max.n

\* C1: the BHI that compute_scores returns is the sum, over the pillars that
\* have a registered weight, of pillar average times weight, rounded to 2
\* decimals; a scored pillar without a weight adds nothing.  Weights
\* {FINANCIAL: 0.5, CUSTOMER: 0.5} with averages {FINANCIAL: 4.0, CUSTOMER: 2.0}
\* give 3.0.
C1_BhiWeightedSum ==
    ComputeReturned =>
        LET w == args.pillar_weights
            avg == ret.value.pillar_scores
            term == [p \in DOMAIN w |-> (IF p \in DOMAIN avg THEN avg[p] ELSE 0) * w[p]]
        IN  /\ ret.value.bhi = Round2Div(SumSet(term, DOMAIN w), Milli(1))
            /\ (w = WeightsHalf /\ DOMAIN avg = {"FINANCIAL", "CUSTOMER"}
                  /\ avg["FINANCIAL"] = Milli(4) /\ avg["CUSTOMER"] = Milli(2))
               => ret.value.bhi = Milli(3)

\* C1 witness: CUSTOMER is scored but only FINANCIAL has a weight, and the BHI
\* is the FINANCIAL average alone
C1_Witness ==
    /\ ComputeReturned
    /\ args.pillar_weights = WeightsFinOnly
    /\ DOMAIN ret.value.pillar_scores = {"FINANCIAL", "CUSTOMER"}
    /\ ret.value.pillar_scores["CUSTOMER"] = Milli(4)
    /\ ret.value.pillar_scores["FINANCIAL"] = Milli(3)
    /\ ret.value.bhi = Milli(3)

\* C2: for a numeric value score_value returns, without raising, the score of
\* the first rule in declared order whose inclusive bounds contain the value
\* (null = unbounded), and 0 when no rule contains it; 15 scores 3 under the
\* FIN_MARGIN rules.
C2_FirstMatchingRule ==
    (mode = "score_value" /\ pc = "done" /\ IsNum(args.value)) =>
        LET M == {i \in 1..Len(args.rules) : WithinRule(args.value, args.rules[i])}
            first == CHOOSE i \in M : \A j \in M : i <= j
        IN  /\ ret.raised = ""
            /\ ret.value = IF M = {} THEN Num(0) ELSE args.rules[first].score
            /\ (args.rules = MarginRules /\ args.value = Num(Milli(15)))
               => ret.value = Num(Milli(3))

\* C2 witness: 10 is the boundary shared by the second and third FIN_MARGIN
\* rules and gets the second rule's score
C2_Witness ==
    /\ mode = "score_value" /\ pc = "done"
    /\ args.rules = MarginRules
    /\ args.value = Num(Milli(10))
    /\ ret.raised = ""
    /\ ret.value = Num(Milli(2))

\* the pillars the definitions map some KPI to
DefinedPillars == {args.kpis[k].pillar : k \in DOMAIN args.kpis}
\* positions of the returned records of pillar p
RecordsOf(p) ==
    {i \in 1..Len(ret.value.results) : ret.value.results[i].d.pillar = Str(p)}
\* the defined KPIs of pillar p that are present in the inputs
PresentOf(p) ==
    {k \in DOMAIN args.kpis : args.kpis[k].pillar = p /\ k \in Keys(args.kpi_inputs)}

\* C3: every pillar is reported with the mean, rounded to 2 decimals, of the
\* scores of exactly its KPIs present in the inputs, and with 0.0 when none of
\* its KPIs was scored (stated for a call with at least one input).
C3_PillarMeanOrZero ==
    (ComputeReturned /\ args.kpi_inputs # <<>>) =>
        \A p \in DefinedPillars :
            LET R == RecordsOf(p)
                sc == [i \in R |-> ret.value.results[i].d.score.n]
            IN  /\ {ret.value.results[i].d.kpi_id.s : i \in R} = PresentOf(p)
                /\ Cardinality(R) = Cardinality(PresentOf(p))
                /\ p \in DOMAIN ret.value.pillar_scores
                /\ ret.value.pillar_scores[p] =
                      IF R = {} THEN 0 ELSE Round2Div(SumSet(sc, R), Cardinality(R))

\* C4: every KPI id of the definitions has a score record; one that is absent
\* from the inputs is scored with raw value 0.0 (stated for a call with at
\* least one input).
C4_EveryDefinedKpiScored ==
    (ComputeReturned /\ args.kpi_inputs # <<>>) =>
        \A k \in DOMAIN args.kpis :
            \E i \in 1..Len(ret.value.results) :
                /\ ret.value.results[i].d.kpi_id = Str(k)
                /\ k \notin Keys(args.kpi_inputs) => ret.value.results[i].d.value = Num(0)

\* the inputs without the ids that no definition knows
KnownInputs == SelectSeq(args.kpi_inputs, LAMBDA e : e[1] \in DOMAIN args.kpis)

\* C5: an input whose kpi_id is in no definition is skipped: it has no score
\* record, and the outcome (records, pillar averages, BHI, or the error of
\* another input) is the outcome of the same call without it.
C5_UnknownKpiSkipped ==
    (mode = "compute_scores" /\ pc = "done") =>
        LET base == compute_scores(KnownInputs, args.kpis, args.pillar_weights)
        IN  /\ ret.raised = base.raised
            /\ ret.raised = "" =>
                  /\ ret.value.results = base.value.results
                  /\ ret.value.pillar_scores = base.value.pillar_scores
                  /\ ret.value.bhi = base.value.bhi
                  /\ \A i \in 1..Len(ret.value.results) :
                        ret.value.results[i].d.kpi_id.s \in DOMAIN args.kpis
                  /\ Len(ret.value.results) = Len(KnownInputs)

\* C5 witness: XX_UNKNOWN (here with value None) is passed between two known
\* KPIs and the call returns their two records
C5_Witness ==
    /\ ComputeReturned
    /\ Len(args.kpi_inputs) = 3
    /\ args.kpi_inputs[2] = <<"XX_UNKNOWN", None>>
    /\ Len(ret.value.results) = 2
    /\ ret.value.bhi > 0

-----------------------------------------------------------------------------
(* Properties of generate_swot and generate_recommendations *)

\* C8: whatever the shape of the score records (dict keyed by kpi_id or by
\* kpi, 3-tuple, 4-tuple), every record with score <= 2 yields "Weak
\* performance in {kpi id}" in Weaknesses and every record with score >= 4
\* yields "Strong performance in {kpi id}" in Strengths.
C8_SwotCompleteAnyShape ==
    (mode = "generate_swot" /\ pc = "done") =>
        \A i \in 1..Len(args.pairs) :
            LET kpi == args.pairs[i][1]
                score == args.pairs[i][2]
            IN  /\ (IsNum(score) /\ score.n <= Milli(2))
                   => <<"Weak performance in ", kpi>> \in Range(ret.value.Weaknesses)
                /\ (IsNum(score) /\ score.n >= Milli(4))
                   => <<"Strong performance in ", kpi>> \in Range(ret.value.Strengths)

\* C9: the recommendations are "Improve performance on {w}" for each
\* Weakness in order, then "Mitigate risk related to {t}" for each Threat in
\* order, so len(Weaknesses) + len(Threats) items; when both lists are empty,
\* the single item "Maintain current performance level".
C9_RecommendationsInOrder ==
    (mode = "generate_recommendations" /\ pc = "done") =>
        LET W == args.swot.Weaknesses
            T == args.swot.Threats
            recs == ret.value
        IN  IF W = <<>> /\ T = <<>>
            THEN recs = <<<<"Maintain current performance level">>>>
            ELSE /\ Len(recs) = Len(W) + Len(T)
                 /\ \A i \in 1..Len(W) :
                       recs[i] = <<"Improve performance on ">> \o W[i]
                 /\ \A j \in 1..Len(T) :
                       recs[Len(W) + j] = <<"Mitigate risk related to ">> \o T[j]

\* C9 witness: two different weaknesses and two different threats come back
\* as four recommendations, weaknesses first, each list in its own order
C9_Witness ==
    /\ mode = "generate_recommendations" /\ pc = "done"
    /\ args.swot.Weaknesses =
          <<<<"Weak performance in ", "FIN_MARGIN">>, <<"Weak performance in ", "CUS_NPS">>>>
    /\ args.swot.Threats =
          <<<<"Underperformance risk in ", "CUS_NPS">>, <<"Underperformance risk in ", "None">>>>
    /\ ret.value =
          << <<"Improve performance on ", "Weak performance in ", "FIN_MARGIN">>,
             <<"Improve performance on ", "Weak performance in ", "CUS_NPS">>,
             <<"Mitigate risk related to ", "Underperformance risk in ", "CUS_NPS">>,
             <<"Mitigate risk related to ", "Underperformance risk in ", "None">> >>

-----------------------------------------------------------------------------
(* Properties of the assembled report *)

ReportDone == mode = "app" /\ report.status = "done"
ReportReturned == ReportDone /\ report.out.raised = ""
ReviewExists == report.review_id \in ReviewIds
ReviewHasInputs == \E i \in 1..Len(kpi_inputs) : kpi_inputs[i][1] = report.review_id

\* C6: assembling a report for a review that does not exist fails with the
\* invalid-review error, whether or not inputs exist; for a review that exists
\* without KPI inputs it fails with the no-data error; the two errors differ,
\* and a failed call carries no payload.
C6_InvalidReviewThenNoData ==
    ReportDone =>
        /\ ~ReviewExists =>
              /\ report.out.raised = "ValueError"
              /\ report.out.msg = "Invalid review ID"
        /\ (ReviewExists /\ ~ReviewHasInputs) =>
              /\ report.out.raised = "ValueError"
              /\ report.out.msg = "No KPI inputs found"
              /\ report.out.msg # "Invalid review ID"
        /\ report.out.raised # "" => report.out.value = <<>>
        /\ (ReviewExists /\ ReviewHasInputs) => report.out.msg = ""

\* C6 witness: a review exists, has no inputs, and the assembly raised the
\* no-data error
C6_Witness ==
    /\ ReportDone
    /\ ReviewExists /\ ~ReviewHasInputs
    /\ kpi_inputs # <<>>
    /\ report.out.msg = "No KPI inputs found"

\* C7: in an assembled report every benchmark row with gap > 0 has the
\* Opportunity "Opportunity to improve {kpi} versus industry" and every row
\* with gap < 0 has the Threat "Underperformance risk in {kpi}", naming the
\* row's KPI.
C7_GapsBecomeOpportunitiesAndThreats ==
    ReportReturned =>
        LET p == report.out.value
        IN  \A i \in 1..Len(p.benchmarks) :
               LET row == p.benchmarks[i]
               IN  /\ row.gap_vs_median.n > 0 =>
                        <<"Opportunity to improve ", row.kpi_id.s, " versus industry">>
                            \in Range(p.swot.Opportunities)
                   /\ row.gap_vs_median.n < 0 =>
                        <<"Underperformance risk in ", row.kpi_id.s>>
                            \in Range(p.swot.Threats)

\* C10: every benchmark row carries a status, which is "Above" iff gap > 0,
\* "Below" iff gap < 0 and "At" iff gap = 0.
C10_StatusFollowsGapSign ==
    ReportReturned =>
        \A i \in 1..Len(report.out.value.benchmarks) :
            LET row == report.out.value.benchmarks[i]
                gap == row.gap_vs_median.n
            IN  /\ "status" \in DOMAIN row
                /\ row["status"] = Str("Above") <=> gap > 0
                /\ row["status"] = Str("Below") <=> gap < 0
                /\ row["status"] = Str("At") <=> gap = 0

-----------------------------------------------------------------------------
(* Properties of compare_to_benchmark *)

CompareDone == mode = "compare_to_benchmark" /\ pc = "done"

\* the resolved reference as pairs <<kpi key, median>>, keys compared
\* case-insensitively
ReferenceOf(bench) ==
    IF bench.kind = "dict"
    THEN {<<Norm(bench.od[j][1]), get_ref(bench.od[j][2]).median>> : j \in 1..Len(bench.od)}
    ELSE IF bench.kind = "list"
    THEN {<<Norm(Fmt(bench.rows[j].kpi_id)), get_ref(PyDict(bench.rows[j])).median>> :
             j \in 1..Len(bench.rows)}
    ELSE {}

ComparedReference ==
    ReferenceOf(resolve_benchmarks_for_industry(args.BENCHMARKS, args.industry))

\* the scored KPIs that the reference knows
InBoth == {e \in Range(args.entries) : \E r \in ComparedReference : r[1] = Norm(e[1])}

C12_AliasAndSpellingsResolve ==
    CompareDone =>
        /\ args.industry \in {"Telecom", " TELECOM ", "telco"} =>
              ret.value = compare_to_benchmark(args.BENCHMARKS, args.scores, "telecom")
        /\ ( /\ args.industry = "telco"
             /\ args.BENCHMARKS = BenchmarksOfIndexes
             /\ args.shape = "mapping"
             /\ args.entries = << <<"BHI", Num(3400), Num(3400), "INDEX">> >> )
           => /\ Len(ret.value) = 1
              /\ ret.value[1].kpi_id = Str("BHI")
              /\ ret.value[1].gap_vs_median = Num(400)

-----------------------------------------------------------------------------
(* Properties of the assembled report, continued *)

\* the industry of the review the report was asked for
ReportIndustry == get_review_by_id(reviews, report.review_id)[3].s

\* the store has a reference for the industry, compared trimmed and lowercased
IndustryKnown(store, industry) ==
    \/ /\ store.kind = "dict"
       /\ \E j \in 1..Len(store.od) : Norm(store.od[j][1]) = Norm(industry)
    \/ /\ store.kind = "list"
       /\ \E j \in 1..Len(store.rows) : Norm(store.rows[j].industry.s) = Norm(industry)

\* C13: for a review whose industry matches no reference the report is still
\* assembled, without error, with no benchmark row, no Opportunity and no
\* Threat.
C13_UnmatchedIndustryDegrades ==
    (ReportDone /\ ReviewExists /\ ReviewHasInputs
        /\ ~IndustryKnown(args.BENCHMARKS, ReportIndustry))
    => /\ report.out.raised = ""
       /\ report.out.value.benchmarks = <<>>
       /\ report.out.value.swot.Opportunities = <<>>
       /\ report.out.value.swot.Threats = <<>>

\* C13 witness: a store that knows Telecom and Banking, a report for an
\* Energy review with a scored KPI the store has a median for
C13_Witness ==
    /\ ReportReturned
    /\ args.BENCHMARKS = BenchmarksOfNumbers
    /\ ReportIndustry = "Energy"
    /\ \E i \in 1..Len(report.out.value.scores) :
          report.out.value.scores[i].d.kpi = Str("FIN_MARGIN")
    /\ report.out.value.benchmarks = <<>>

\* C14: the shapes of the scored values are equivalent for compare: the same
\* scored KPIs handed over as a mapping, as 2/3/4-tuples, as compute_scores'
\* records, as the normalized records of the report or as the rows of
\* get_scores reduce to the same {kpi_id: value} map and give the same rows.
C14_ShapesEquivalent ==
    CompareDone =>
        \A shape \in CompareShapes :
           LET other == ScoresIn(shape, args.entries)
           IN  /\ Range(ScoreMap(other)) = Range(ScoreMap(args.scores))
               /\ Range(compare_to_benchmark(args.BENCHMARKS, other, args.industry))
                     = Range(ret.value)

\* C15: the rows compare returns are sorted by kpi_id in ascending order,
\* whatever the order of the scored input and of the reference.
C15_RowsSortedByKpiId ==
    CompareDone =>
        \A i, j \in 1..Len(ret.value) :
           i < j => StrRank(ret.value[i].kpi_id.s) <= StrRank(ret.value[j].kpi_id.s)

\* the KPI inputs of the reported review that the registry defines
ScoredInputs ==
    LET inputs == get_kpi_inputs(kpi_inputs, report.review_id)
    IN  {inputs[i] : i \in {j \in 1..Len(inputs) : inputs[j][1] \in DOMAIN args.kpis}}

\* C16: every record of the payload's scores has the shape {kpi, value,
\* score, pillar}; there is exactly one record per scored KPI; its value is
\* the KPI's raw input value, 0 included, and its score is the score the
\* scoring engine gives that value.
C16_ScoresCanonical ==
    ReportReturned =>
        LET scores == report.out.value.scores
        IN  /\ \A i \in 1..Len(scores) :
                  /\ scores[i].kind = "dict"
                  /\ DOMAIN scores[i].d = {"kpi", "value", "score", "pillar"}
            /\ Len(scores) = Cardinality(ScoredInputs)
            /\ \A input \in ScoredInputs :
                  \E i \in 1..Len(scores) :
                     /\ scores[i].d.kpi = Str(input[1])
                     /\ scores[i].d.value = input[2]
                     /\ scores[i].d.score
                           = score_value(input[2], args.kpis[input[1]].scoring_rules).value

-----------------------------------------------------------------------------
(* Properties of generate_executive_summary *)

NarrateDone == mode = "generate_executive_summary" /\ pc = "done"

\* the health label of the overview and the priority text
HealthLabel == ret.value.overview[6]
UrgentText ==
    <<"Immediate management attention is required to ",
      "address structural and operational weaknesses.">>
TargetedText ==
    <<"Management should prioritize targeted performance ",
      "improvements to strengthen competitiveness.">>
SustainText ==
    <<"Management should focus on sustaining performance ",
      "and pursuing strategic expansion opportunities.">>

\* C19: the health label is "strong" when bhi >= 4, "moderate" when
\* 3 <= bhi < 4 and "weak" otherwise; the priority text is the urgent one
\* when bhi < 3, the targeted-improvement one when 3 <= bhi < 4 and the
\* sustain/expand one otherwise; 3 and 4 fall in the upper band of each.
C19_TwoLadders ==
    NarrateDone =>
        LET bhi == args.report.bhi
        IN  /\ HealthLabel = "strong" <=> bhi >= Milli(4)
            /\ HealthLabel = "moderate" <=> (Milli(3) <= bhi /\ bhi < Milli(4))
            /\ HealthLabel = "weak" <=> bhi < Milli(3)
            /\ ret.value.priority_actions = UrgentText <=> bhi < Milli(3)
            /\ ret.value.priority_actions = TargetedText
                  <=> (Milli(3) <= bhi /\ bhi < Milli(4))
            /\ ret.value.priority_actions = SustainText <=> bhi >= Milli(4)

\* C19 witness: the boundary value 4 narrated as strong, with the
\* sustain/expand text
C19_Witness ==
    /\ NarrateDone
    /\ args.report.bhi = Milli(4)
    /\ HealthLabel = "strong"
    /\ ret.value.priority_actions = SustainText

PayloadFields ==
    {"company_info", "kpi_inputs", "scores", "pillars", "bhi", "benchmarks", "swot",
     "recommendations", "meta"}

\* C17 as stated: every returned payload has exactly the nine top-level
\* fields, and its meta has exactly generated_at, version and engine_name.
C17_MetaHasEngineName ==
    ReportReturned =>
        /\ DOMAIN report.out.value = PayloadFields
        /\ DOMAIN report.out.value.meta = {"generated_at", "version", "engine_name"}

\* C17 amended: every returned payload has exactly the nine top-level fields,
\* and its meta has exactly generated_at, version and engine.
C17_PayloadAndMetaFields ==
    ReportReturned =>
        /\ DOMAIN report.out.value = PayloadFields
        /\ DOMAIN report.out.value.meta = {"generated_at", "version", "engine"}

\* C17 witness: a payload returned for a review with two scored KPIs
C17_Witness ==
    /\ ReportReturned
    /\ Len(report.out.value.scores) = 2
    /\ report.out.value.meta.version = "2.0"

-----------------------------------------------------------------------------
(* Properties of the order of the pipeline *)

AdvisorMode == mode = "ask_business_advisor"
\* generate_report_payload has just returned its payload
PayloadJustReturned == AdvisorMode /\ pc = "narrative"
\* the statements after the call of generate_executive_summary
AfterNarrative == AdvisorMode /\ pc \in {"answer", "done"}

AssembleStages ==
    <<"compute_scores", "compare_to_benchmark", "generate_swot",
      "generate_recommendations">>

\* each stage's output is what the stage gives on the outputs before it
StagesFeedEachOther ==
    LET f == ret.value
    IN  /\ f.scores = NormalizeScores(f.computed.results)
        /\ f.benchmarks = compare_to_benchmark(args.BENCHMARKS, ScoresList(f.scores),
                                               f.company_info.industry.s)
        /\ f.swot = generate_swot(f.scores, f.benchmarks)
        /\ f.recommendations = generate_recommendations(f.swot)
        /\ f.payload.scores = f.scores
        /\ f.payload.benchmarks = f.benchmarks
        /\ f.payload.swot = f.swot
        /\ f.payload.recommendations = f.recommendations

-----------------------------------------------------------------------------
(* The range of the Business Health Index *)

\* the weights are in 0..1 and sum to 1
WeightsWellFormed(pillar_weights) ==
    /\ \A p \in DOMAIN pillar_weights :
          0 <= pillar_weights[p] /\ pillar_weights[p] <= Milli(1)
    /\ SumSet(pillar_weights, DOMAIN pillar_weights) = Milli(1)

\* the scores that appear in the scoring rules of the registry
RuleScores(kpis) ==
    UNION {{kpis[k].scoring_rules[i].score.n : i \in 1..Len(kpis[k].scoring_rules)} :
              k \in DOMAIN kpis}

\* C20: for any KPI inputs and any pillar weights in 0..1 that sum to 1, the
\* BHI compute_scores returns is at least 0 and at most the largest score of
\* the scoring rules.
C20_BhiWithinScoreRange ==
    (ComputeReturned /\ WeightsWellFormed(args.pillar_weights)) =>
        /\ 0 <= ret.value.bhi
        /\ \E top \in RuleScores(args.kpis) :
              /\ \A sc \in RuleScores(args.kpis) : sc <= top
              /\ ret.value.bhi <= top

\* C20 witness: two KPIs scored under weights that sum to 1, and the BHI
\* reaches the largest score of the rules
C20_Witness ==
    /\ ComputeReturned
    /\ WeightsWellFormed(args.pillar_weights)
    /\ Len(ret.value.results) >= 2
    /\ \E top \in RuleScores(args.kpis) :
          /\ \A sc \in RuleScores(args.kpis) : sc <= top
          /\ ret.value.bhi = top

-----------------------------------------------------------------------------
(* Values that are not numbers *)

\* C21: a value that cannot be parsed as a number is replaced by 0.0 where the
\* pipeline consumes it and never propagated as an error: compute_scores
\* returns for every input, and a defined KPI whose input is None has a
\* record with value 0.0 and the score the rules give to 0.0.
C21_UnparsableValueScoredAsZero ==
    (mode = "compute_scores" /\ pc = "done") =>
        /\ ret.raised = ""
        /\ \A i \in 1..Len(args.kpi_inputs) :
              LET kpi_id == args.kpi_inputs[i][1]
                  cfg == LookupCfg(args.kpis, kpi_id)
              IN  (cfg.defined /\ IsNone(args.kpi_inputs[i][2])) =>
                     \E j \in 1..Len(ret.value.results) :
                        /\ ret.value.results[j].d.kpi_id = Str(kpi_id)
                        /\ ret.value.results[j].d.value = Num(0)
                        /\ ret.value.results[j].d.score =
                              score_value(Num(0), cfg.scoring_rules).value

-----------------------------------------------------------------------------
(* Loading the configuration: core/kpi_registry.py reads the two JSON      *)
(* files at every compute_scores call, core/benchmarking.py imports the    *)
(* benchmark store once, at module import.  args holds what is on disk.    *)

\* a configuration file: absent, not JSON, or JSON holding data
NoFile == [exists |-> FALSE, json |-> FALSE, shape |-> "", data |-> <<>>]
BrokenFile == [exists |-> TRUE, json |-> FALSE, shape |-> "", data |-> <<>>]
JsonFile(shape, data) == [exists |-> TRUE, json |-> TRUE, shape |-> shape, data |-> data]

\* what json.load gave: a dict of the expected structure or another value
Loaded(file) == [shape |-> file.shape, data |-> file.data]

\* load_kpis(): the parsed file, whatever its structure
load_kpis(file) ==
    IF ~file.exists THEN Raise("FileNotFoundError", "kpi_definitions.json not found")
    ELSE IF ~file.json THEN Raise("JSONDecodeError", "Expecting value")
    ELSE Return(Loaded(file))

\* load_pillar_weights()
load_pillar_weights(file) ==
    IF ~file.exists THEN Raise("FileNotFoundError", "pillar_weights.json not found")
    ELSE IF ~file.json THEN Raise("JSONDecodeError", "Expecting value")
    ELSE Return(Loaded(file))

\* try: from core.benchmark_data import BENCHMARKS / except Exception: None
import_benchmarks(module) ==
    IF module.exists /\ module.json THEN module.data ELSE NoBenchmarks

\* the files and the module a deployment may have
KpiFiles == {NoFile, BrokenFile, JsonFile("list", <<>>)} \cup {JsonFile("dict", k) : k \in KpiConfigs}
WeightFiles == {NoFile, BrokenFile, JsonFile("list", <<>>)} \cup {JsonFile("dict", w) : w \in WeightConfigs}
BenchmarkModules == {NoFile, BrokenFile} \cup {JsonFile("dict", b) : b \in BenchmarkStores \ {NoBenchmarks}}

\* the inputs of the one review that is scored
LoadInputs == << <<"FIN_MARGIN", Num(Milli(25))>> >>

NoConfig == [BENCHMARKS |-> NoBenchmarks, kpis |-> <<>>, pillar_weights |-> <<>>, rows |-> <<>>, computed |-> <<>>]

InitLoad ==
    /\ mode = "load_config"
    /\ pc = "import"
    /\ args \in [kpi_definitions : KpiFiles, pillar_weights : WeightFiles,
                 benchmark_data : BenchmarkModules]
    /\ ret = Return(NoConfig)
    /\ StoreEmpty

\* benchmarking.py lines 13-16, run when the module is imported
ImportBenchmarking ==
    /\ mode = "load_config"
    /\ pc = "import"
    /\ ret' = Return([ret.value EXCEPT !.BENCHMARKS = import_benchmarks(args.benchmark_data)])
    /\ pc' = "load_kpis"
    /\ UNCHANGED <<mode, args>>
    /\ StoreUnchanged

\* scoring_engine.py line 16
LoadKpis ==
    /\ mode = "load_config"
    /\ pc = "load_kpis"
    /\ LET kpis == load_kpis(args.kpi_definitions)
       IN  IF kpis.raised # "" THEN ret' = kpis /\ pc' = "raised"
           ELSE /\ ret' = Return([ret.value EXCEPT !.kpis = kpis.value])
                /\ pc' = "load_pillar_weights"
    /\ UNCHANGED <<mode, args>>
    /\ StoreUnchanged

\* scoring_engine.py line 17
LoadPillarWeights ==
    /\ mode = "load_config"
    /\ pc = "load_pillar_weights"
    /\ LET w == load_pillar_weights(args.pillar_weights)
       IN  IF w.raised # "" THEN ret' = w /\ pc' = "raised"
           ELSE /\ ret' = Return([ret.value EXCEPT !.pillar_weights = w.value])
                /\ pc' = "score"
    /\ UNCHANGED <<mode, args>>
    /\ StoreUnchanged

\* scoring_engine.py lines 19-60 with what was loaded: kpis.get and
\* pillar_weights.get exist only on a dict
ScoreWithLoaded ==
    /\ mode = "load_config"
    /\ pc = "score"
    /\ IF ret.value.kpis.shape # "dict" \/ ret.value.pillar_weights.shape # "dict"
       THEN ret' = Raise("AttributeError", "'list' object has no attribute 'get'")
            /\ pc' = "raised"
       ELSE LET computed == compute_scores(LoadInputs, ret.value.kpis.data,
                                           ret.value.pillar_weights.data)
            IN  /\ ret' = Return([ret.value EXCEPT !.computed = computed.value])
                /\ pc' = "compare"
    /\ UNCHANGED <<mode, args>>
    /\ StoreUnchanged

\* compare_to_benchmark(scores, industry) with the store the import left
CompareWithLoaded ==
    /\ mode = "load_config"
    /\ pc = "compare"
    /\ ret' = Return([ret.value EXCEPT
                        !.rows = compare_to_benchmark(ret.value.BENCHMARKS,
                                     ScoresList(ret.value.computed.results), "Telecom")])
    /\ pc' = "done"
    /\ UNCHANGED <<mode, args>>
    /\ StoreUnchanged

NextLoad ==
    \/ ImportBenchmarking
    \/ LoadKpis
    \/ LoadPillarWeights
    \/ ScoreWithLoaded
    \/ CompareWithLoaded

SpecLoad == InitLoad /\ [][NextLoad]_vars

\* a file that holds JSON of the expected structure
ValidConfig(file) == file.exists /\ file.json /\ file.shape = "dict"

\* C22: a missing or malformed KPI, pillar-weight or benchmark configuration
\* is a fatal error raised when the configuration is loaded, never swallowed:
\* a run that got past the loads (it is scoring, comparing or finished) has
\* loaded three well-formed configurations, and none of them was replaced by
\* an empty or default one.
C22_BadConfigIsFatalAtLoad ==
    (mode = "load_config" /\ pc \in {"score", "compare", "done"}) =>
        /\ ValidConfig(args.kpi_definitions)
        /\ ValidConfig(args.pillar_weights)
        /\ ValidConfig(args.benchmark_data)
        /\ ret.value.BENCHMARKS # NoBenchmarks

-----------------------------------------------------------------------------
(* save_kpi_value called from several sessions at once.  Every call opens  *)
(* its own SQLite connection; kpi_inputs is the committed table, pc, args  *)
(* and ret are per session: the statement about to run, the call's         *)
(* arguments and the rows as the connection sees them inside its           *)
(* transaction.  SQLite lets one connection write at a time: the DELETE    *)
(* takes the write lock, the commit releases it, a connection that finds   *)
(* the lock taken waits and, after the timeout, raises.                    *)

Sessions == {"s1", "s2"}

\* DELETE FROM kpi_inputs WHERE kpi_id=?, whatever the review
DeleteKpiOfAnyReview(rows, review_id, kpi_id) ==
    SelectSeq(rows, LAMBDA r : r[2] # kpi_id)
\* DELETE FROM kpi_inputs WHERE review_id=? AND kpi_id=?
DeletePair(rows, review_id, kpi_id) ==
    SelectSeq(rows, LAMBDA r : ~(r[1] = review_id /\ r[2] = kpi_id))

\* INSERT INTO kpi_inputs (review_id, kpi_id, value, updated_at)
InsertRow(rows, review_id, kpi_id, value) ==
    Append(rows, <<review_id, kpi_id, IF IsNone(value) THEN Num(0) ELSE value>>)

\* the arguments the pages pass: a review, a KPI of the registry, a number
SaveCalls ==
    [review_id : {1}, kpi_id : {"FIN_MARGIN", "CUS_NPS"},
     value : {Num(Milli(5)), Num(Milli(25))}]

\* another review's row, saved before the sessions start
RowsOfOtherReview == << <<2, "FIN_MARGIN", Num(Milli(10))>> >>

\* some connection is between its DELETE and its commit
WriteLocked == \E o \in Sessions : pc[o] \in {"insert", "commit"}

InitSave ==
    /\ mode = "save_kpi_value"
    /\ pc = [s \in Sessions |-> "idle"]
    /\ args = [s \in Sessions |-> <<>>]
    /\ ret = [s \in Sessions |-> NoCall]
    /\ reviews = <<ReviewRow(1, "Acme Ltd", "Telecom", None, Timestamp(1)),
                   ReviewRow(2, "Bolt Plc", "Energy", None, Timestamp(2))>>
    /\ kpi_inputs = RowsOfOtherReview
    /\ next_id = 3
    /\ report = NoReport

\* a page calls save_kpi_value: get_conn(), conn.cursor()
SaveCall(s) ==
    /\ mode = "save_kpi_value"
    /\ pc[s] = "idle"
    /\ \E call \in SaveCalls : args' = [args EXCEPT ![s] = call]
    /\ pc' = [pc EXCEPT ![s] = "delete"]
    /\ ret' = [ret EXCEPT ![s] = NoCall]
    /\ UNCHANGED <<mode, reviews, kpi_inputs, next_id, report>>

\* line 389: the DELETE opens the transaction on the committed rows
SaveDelete(s) ==
    /\ mode = "save_kpi_value"
    /\ pc[s] = "delete"
    /\ ~WriteLocked
    /\ ret' = [ret EXCEPT ![s] =
                 Return(DeletePair(kpi_inputs, args[s].review_id, args[s].kpi_id))]
    /\ pc' = [pc EXCEPT ![s] = "insert"]
    /\ UNCHANGED <<mode, args, reviews, kpi_inputs, next_id, report>>

\* line 389 while another connection holds the lock for longer than the
\* timeout: sqlite3.OperationalError, nothing is written
SaveLocked(s) ==
    /\ mode = "save_kpi_value"
    /\ pc[s] = "delete"
    /\ WriteLocked
    /\ ret' = [ret EXCEPT ![s] = Raise("OperationalError", "database is locked")]
    /\ pc' = [pc EXCEPT ![s] = "idle"]
    /\ UNCHANGED <<mode, args, reviews, kpi_inputs, next_id, report>>

\* lines 390-393
SaveInsert(s) ==
    /\ mode = "save_kpi_value"
    /\ pc[s] = "insert"
    /\ ret' = [ret EXCEPT ![s] =
                 Return(InsertRow(ret[s].value, args[s].review_id, args[s].kpi_id,
                                  args[s].value))]
    /\ pc' = [pc EXCEPT ![s] = "commit"]
    /\ UNCHANGED <<mode, args, reviews, kpi_inputs, next_id, report>>

\* lines 395-396: conn.commit(), conn.close()
SaveCommit(s) ==
    /\ mode = "save_kpi_value"
    /\ pc[s] = "commit"
    /\ kpi_inputs' = ret[s].value
    /\ pc' = [pc EXCEPT ![s] = "idle"]
    /\ UNCHANGED <<mode, args, ret, reviews, next_id, report>>

NextSave ==
    \/ \E s \in Sessions : SaveCall(s)
    \/ \E s \in Sessions : SaveDelete(s)
    \/ \E s \in Sessions : SaveLocked(s)
    \/ \E s \in Sessions : SaveInsert(s)
    \/ \E s \in Sessions : SaveCommit(s)

SpecSave == InitSave /\ [][NextSave]_vars

\* the values the committed table holds for a pair
StoredValues(rows, review_id, kpi_id) ==
    {rows[i][3] : i \in {j \in 1..Len(rows) : rows[j][1] = review_id /\ rows[j][2] = kpi_id}}

\* what get_kpi_inputs(review_id) returns for kpi_id: the values under the key
ReadValues(rows, review_id, kpi_id) ==
    LET d == get_kpi_inputs(rows, review_id)
    IN  {d[i][2] : i \in {j \in 1..Len(d) : d[j][1] = kpi_id}}

StoredPairs == {<<r, k>> : r \in {1, 2}, k \in {"FIN_MARGIN", "CUS_NPS"}}

AtMostOnePerPair ==
    \A i, j \in 1..Len(kpi_inputs) :
        (kpi_inputs[i][1] = kpi_inputs[j][1] /\ kpi_inputs[i][2] = kpi_inputs[j][2]) => i = j

\* a step of the save sessions: a commit of save_kpi_value(r, k, v) makes
\* get_kpi_inputs(r) return v for k and keeps every other pair; any other
\* step keeps every pair
SaveStepKeepsPairs ==
    \A s \in Sessions :
        LET committing == pc[s] = "commit" /\ pc'[s] = "idle"
        IN  \A p \in StoredPairs :
               IF committing /\ p = <<args[s].review_id, args[s].kpi_id>>
               THEN ReadValues(kpi_inputs', p[1], p[2]) = {args[s].value}
               ELSE (committing \/ \A o \in Sessions : ~(pc[o] = "commit" /\ pc'[o] = "idle"))
                       => StoredValues(kpi_inputs', p[1], p[2]) = StoredValues(kpi_inputs, p[1], p[2])

\* C23: after any sequence of save_kpi_value calls, sequential or concurrent,
\* the store holds at most one row per (review_id, kpi_id) pair,
\* get_kpi_inputs returns for a pair the value of the last committed save,
\* and a save leaves the values of all other pairs unchanged.
C23_OneInputPerPairLastSaveWins ==
    /\ []AtMostOnePerPair
    /\ [][mode = "save_kpi_value" => SaveStepKeepsPairs]_vars

\* C23 witness: both KPIs of review 1 are stored, one session is about to
\* commit another value for a KPI that is stored, the other session waits
\* for the lock to save the same KPI
C23_Witness ==
    /\ mode = "save_kpi_value"
    /\ Len(kpi_inputs) = 3
    /\ pc["s1"] = "commit"
    /\ pc["s2"] = "delete"
    /\ args["s1"].kpi_id = args["s2"].kpi_id
    /\ StoredValues(kpi_inputs, 1, args["s1"].kpi_id) = {Num(Milli(5))}
    /\ args["s1"].value = Num(Milli(25))

-----------------------------------------------------------------------------
(* The report of one review assembled again and again while the rest of    *)
(* the store changes.  args.now is the clock datetime.now() reads, report  *)
(* the outcome of the last assembly of review 1, ret the outcome of the    *)
(* assembly before it, as long as review 1 has not been saved to since.    *)

MaxAssemblies == 3

\* report_engine.py line 110: "generated_at": datetime.now().isoformat()
Stamp(out, now) ==
    IF out.raised # "" THEN out
    ELSE Return([out.value EXCEPT !.meta = Meta(now)])

InitRepeat ==
    /\ mode = "repeat"
    /\ pc = "idle"
    /\ args \in [kpis : {KpisFull}, pillar_weights : {WeightsHalf},
                 BENCHMARKS : {BenchmarksOfNumbers, BenchmarksOfRows}, now : {1}]
    /\ ret = NoReport
    /\ reviews = <<ReviewRow(1, "Acme Ltd", "Telecom", None, Timestamp(1)),
                   ReviewRow(2, "Bolt Plc", "Telecom", None, Timestamp(2))>>
    /\ kpi_inputs = <<>>
    /\ next_id = 3
    /\ report = NoReport

\* save_kpi_value for review 1: what was assembled before is out of date
RepeatSave ==
    /\ mode = "repeat"
    /\ \E input \in SavedInputs :
          /\ Len(save_kpi_value(kpi_inputs, 1, input[1], input[2])) <= MaxRows
          /\ kpi_inputs' = save_kpi_value(kpi_inputs, 1, input[1], input[2])
    /\ ret' = NoReport
    /\ report' = NoReport
    /\ UNCHANGED <<mode, pc, args, reviews, next_id>>

\* save_kpi_value for another review
RepeatSaveElsewhere ==
    /\ mode = "repeat"
    /\ \E input \in SavedInputs :
          /\ Len(save_kpi_value(kpi_inputs, 2, input[1], input[2])) <= MaxRows
          /\ kpi_inputs' = save_kpi_value(kpi_inputs, 2, input[1], input[2])
    /\ UNCHANGED <<mode, pc, args, ret, reviews, next_id, report>>

\* generate_report_payload(1), some time after the assembly before
RepeatAssemble ==
    /\ mode = "repeat"
    /\ args.now <= MaxAssemblies
    /\ report' = [status |-> "done", review_id |-> 1,
                  out |-> Stamp(generate_report_payload(reviews, kpi_inputs, args, 1),
                                args.now)]
    /\ ret' = report
    /\ args' = [args EXCEPT !.now = @ + 1]
    /\ UNCHANGED <<mode, pc, reviews, kpi_inputs, next_id>>

NextRepeat == RepeatSave \/ RepeatSaveElsewhere \/ RepeatAssemble

SpecRepeat == InitRepeat /\ [][NextRepeat]_vars

\* review 1 was assembled twice and not saved to in between
AssembledTwice == mode = "repeat" /\ report.status = "done" /\ ret.status = "done"

-----------------------------------------------------------------------------
(* The three places that compute a review's BHI: core/scoring_engine.py,   *)
(* pages/4_Scoring_Dashboard.py (_compute_scores) and core/pdf_engine.py   *)
(* (export_report_to_pdf)                                                  *)

\* _score_from_rules, on v = _safe_float(value, 0.0)
RECURSIVE ScoreFromRules(_, _, _)
ScoreFromRules(v, rules, i) ==
    IF i > Len(rules) THEN 0
    ELSE LET mn == rules[i].min
             mx == rules[i].max
             ok_min == IsNone(mn) \/ v >= mn.n
             ok_max == IsNone(mx) \/ v <= mx.n
         IN  IF ok_min /\ ok_max THEN rules[i].score.n
             ELSE ScoreFromRules(v, rules, i + 1)

score_from_rules(value, rules) == ScoreFromRules(safe_float(value, 0), rules, 1)

\* inputs.get(kpi_id, 0.0)
InputOrZero(inputs, kpi_id) ==
    IF \E i \in 1..Len(inputs) : inputs[i][1] = kpi_id
    THEN inputs[CHOOSE i \in 1..Len(inputs) : inputs[i][1] = kpi_id][2]
    ELSE Num(0)

\* _compute_scores of the Scoring Dashboard: every defined KPI is scored,
\* pillar_avgs are rounded means, bhi is the rounded mean of pillar_avgs
dashboard_compute_scores(kpi_defs, inputs) ==
    LET score == [k \in DOMAIN kpi_defs |->
                     score_from_rules(InputOrZero(inputs, k), kpi_defs[k].scoring_rules)]
        pillars == {kpi_defs[k].pillar : k \in DOMAIN kpi_defs}
        of(p) == {k \in DOMAIN kpi_defs : kpi_defs[k].pillar = p}
        pillar_avgs == [p \in pillars |-> Round2Div(SumSet(score, of(p)), Cardinality(of(p)))]
    IN  [pillar_avgs |-> pillar_avgs,
         bhi |-> IF pillars = {} THEN 0
                 ELSE Round2Div(SumSet(pillar_avgs, pillars), Cardinality(pillars))]

RECURSIVE ProdSet(_, _)
ProdSet(f, S) ==
    IF S = {} THEN 1
    ELSE LET x == CHOOSE y \in S : TRUE IN f[x] * ProdSet(f, S \ {x})

\* export_report_to_pdf, lines 234-262: the rows of get_scores are looked up
\* under "kpi_id"; pillar_avgs and bhi are unrounded means, kept here as the
\* fraction num / den
pdf_bhi(score_rows) ==
    LET kept == {i \in 1..Len(score_rows) :
                    Truthy(Or(Get(score_rows[i].d, "kpi_id", None), Str("")))}
        score == [i \in kept |-> FloatOrZero(Get(score_rows[i].d, "score", Num(0))).n]
        pillar(i) == Get(score_rows[i].d, "pillar", Str("")).s
        pillars == {pillar(i) : i \in kept} \ {""}
        of == [p \in pillars |-> {i \in kept : pillar(i) = p}]
        count == [p \in pillars |-> Cardinality(of[p])]
        all == ProdSet(count, pillars)
        share == [p \in pillars |-> SumSet(score, of[p]) * (all \div count[p])]
    IN  IF pillars # {} THEN [num |-> SumSet(share, pillars), den |-> all * Cardinality(pillars)]
        ELSE IF kept # {} THEN [num |-> SumSet(score, kept), den |-> Cardinality(kept)]
        ELSE [num |-> 0, den |-> 1]

InitBhi ==
    /\ mode = "bhi"
    /\ pc = "call"
    /\ args \in [kpi_inputs : InputDicts, kpis : KpiConfigs,
                 pillar_weights : WeightConfigs, scores_saved : BOOLEAN]
    /\ ret = NoCall
    /\ StoreEmpty

\* the review's BHI as the report, the dashboard and the PDF export have it;
\* the PDF reads table scores, which holds the engine's results once they
\* were saved
CallBhiPaths ==
    /\ mode = "bhi"
    /\ pc = "call"
    /\ LET engine == compute_scores(args.kpi_inputs, args.kpis, args.pillar_weights)
           stored == IF args.scores_saved /\ engine.raised = ""
                     THEN save_scores(engine.value.results) ELSE <<>>
       IN  ret' = Return([engine |-> engine,
                          dashboard |-> dashboard_compute_scores(args.kpis, args.kpi_inputs),
                          pdf |-> pdf_bhi(get_scores(stored))])
    /\ pc' = "done"
    /\ UNCHANGED <<mode, args>>
    /\ StoreUnchanged

NextBhi == CallBhiPaths

SpecBhi == InitBhi /\ [][NextBhi]_vars

\* C25: there is one BHI formula: for the same KPI inputs and configuration
\* the Scoring Dashboard and the PDF export yield the BHI that compute_scores
\* yields, the weighted sum over the pillar weights.
C25_OneBhiOnEveryPath ==
    (mode = "bhi" /\ pc = "done" /\ ret.value.engine.raised = "") =>
        /\ ret.value.dashboard.bhi = ret.value.engine.value.bhi
        /\ ret.value.pdf.num = ret.value.engine.value.bhi * ret.value.pdf.den

-----------------------------------------------------------------------------
(* A report assembled while the Data Input form is saved.  The form saves  *)
(* its KPIs one save_kpi_value call, and so one transaction, at a time;    *)
(* generate_report_payload reads the inputs with one SELECT.  pc, args and *)
(* ret have a field per session: form and report.                          *)

\* what the form holds when it is submitted: a value for every KPI of the
\* registry, in the registry's order
FormInputs ==
    {<< <<"FIN_MARGIN", Num(Milli(m))>>, <<"CUS_NPS", Num(Milli(n))>> >> :
        m \in {5, 25}, n \in {5, 25}}

\* the review's rows before the form is submitted
RowsBeforeSubmit ==
    {<<>>, << <<1, "FIN_MARGIN", Num(Milli(10))>> >>,
     << <<1, "FIN_MARGIN", Num(Milli(10))>>, <<1, "CUS_NPS", Num(Milli(10))>> >>}

InitSubmit ==
    /\ mode = "submit"
    /\ pc = [form |-> "render", report |-> "call"]
    /\ args = [form |-> [review_id |-> 1, existing |-> <<>>, inputs |-> <<>>, i |-> 1],
               report |-> [review_id |-> 1, kpis |-> KpisSmall, pillar_weights |-> WeightsThree]]
    /\ ret = [form |-> <<>>, report |-> [inputs |-> <<>>, computed |-> NoCall]]
    /\ reviews = <<ReviewRow(1, "Acme Ltd", "Telecom", None, Timestamp(1))>>
    /\ kpi_inputs \in RowsBeforeSubmit
    /\ next_id = 2
    /\ report = NoReport

\* 3_Data_Input.py lines 93-125: the page reads the stored values, the user
\* submits the form
FormSubmit ==
    /\ mode = "submit"
    /\ pc.form = "render"
    /\ \E inputs \in FormInputs :
          args' = [args EXCEPT !.form.existing = get_kpi_inputs(kpi_inputs, 1),
                               !.form.inputs = inputs]
    /\ pc' = [pc EXCEPT !.form = "delete"]
    /\ UNCHANGED <<mode, ret, reviews, kpi_inputs, next_id, report>>

\* save_kpi_value(review_id, k, v) of the loop, line 389
FormDelete ==
    /\ mode = "submit"
    /\ pc.form = "delete"
    /\ ret' = [ret EXCEPT !.form =
                 DeletePair(kpi_inputs, 1, args.form.inputs[args.form.i][1])]
    /\ pc' = [pc EXCEPT !.form = "insert"]
    /\ UNCHANGED <<mode, args, reviews, kpi_inputs, next_id, report>>

\* lines 390-393
FormInsert ==
    /\ mode = "submit"
    /\ pc.form = "insert"
    /\ ret' = [ret EXCEPT !.form =
                 InsertRow(ret.form, 1, args.form.inputs[args.form.i][1],
                           args.form.inputs[args.form.i][2])]
    /\ pc' = [pc EXCEPT !.form = "commit"]
    /\ UNCHANGED <<mode, args, reviews, kpi_inputs, next_id, report>>

\* lines 395-396, then the next KPI of the loop or the end of the loop
FormCommit ==
    /\ mode = "submit"
    /\ pc.form = "commit"
    /\ kpi_inputs' = ret.form
    /\ args' = [args EXCEPT !.form.i = @ + 1]
    /\ pc' = [pc EXCEPT !.form =
                 IF args.form.i < Len(args.form.inputs) THEN "delete" ELSE "saved"]
    /\ UNCHANGED <<mode, ret, reviews, next_id, report>>

\* report_engine.py line 50: inputs = get_kpi_inputs(review_id); the SELECT
\* sees the committed rows
ReportRead ==
    /\ mode = "submit"
    /\ pc.report = "call"
    /\ ret' = [ret EXCEPT !.report.inputs = get_kpi_inputs(kpi_inputs, 1)]
    /\ pc' = [pc EXCEPT !.report = "score"]
    /\ UNCHANGED <<mode, args, reviews, kpi_inputs, next_id, report>>

\* lines 52-59: the check and compute_scores(inputs)
ReportScore ==
    /\ mode = "submit"
    /\ pc.report = "score"
    /\ ret' = [ret EXCEPT !.report.computed =
                 IF ret.report.inputs = <<>> THEN Raise("ValueError", "No KPI inputs found")
                 ELSE compute_scores(ret.report.inputs, args.report.kpis,
                                     args.report.pillar_weights)]
    /\ pc' = [pc EXCEPT !.report = "done"]
    /\ UNCHANGED <<mode, args, reviews, kpi_inputs, next_id, report>>

NextSubmit ==
    \/ FormSubmit
    \/ FormDelete
    \/ FormInsert
    \/ FormCommit
    \/ ReportRead
    \/ ReportScore

SpecSubmit == InitSubmit /\ [][NextSubmit]_vars

\* an ordered dict as the set of its items
ItemsOfDict(od) == {od[i] : i \in 1..Len(od)}

\* the inputs after the whole form is saved: the form's values
InputsAfterSubmit == ItemsOfDict(args.form.inputs)

\* C26: a report assembled concurrently with a multi-KPI save of the same
\* review scores either all the values from before the save or all the
\* values after it, never a mixture.
C26_ReportReadsAllOrNothing ==
    (mode = "submit" /\ pc.form # "render" /\ pc.report \in {"score", "done"}) =>
        \/ ItemsOfDict(ret.report.inputs) = ItemsOfDict(args.form.existing)
        \/ ItemsOfDict(ret.report.inputs) = InputsAfterSubmit

-----------------------------------------------------------------------------
(* compute_scores while an administrator uploads a new configuration with  *)
(* the Admin Config page.  args holds the two files and the inputs of the  *)
(* call; pc and ret have a field per session: compute and admin.           *)

\* the configuration in use and the one being uploaded
ConfigV1 == [kpis |-> KpisFull, pillar_weights |-> WeightsHalf]
ConfigV2 == [kpis |-> KpisSmall, pillar_weights |-> WeightsThree]

\* the inputs of the computation in flight
UploadInputs ==
    {s \in SeqsUpTo({"FIN_MARGIN", "CUS_NPS"} \X {Num(Milli(5)), Num(Milli(25))}, 2) :
        DistinctKeys(s) /\ s # <<>>}

InitUpload ==
    /\ mode = "upload"
    /\ pc = [compute |-> "load_kpis", admin |-> "idle"]
    /\ args \in [kpi_definitions : {JsonFile("dict", ConfigV1.kpis)},
                 pillar_weights : {JsonFile("dict", ConfigV1.pillar_weights)},
                 kpi_inputs : UploadInputs]
    /\ ret = [compute |-> [kpis |-> <<>>, pillar_weights |-> <<>>, computed |-> NoCall],
              admin |-> ""]
    /\ StoreEmpty

\* 8_Admin_Config.py line 87: open(path, "wb") leaves the file empty until
\* the content is written
UploadOpenKpis ==
    /\ mode = "upload"
    /\ pc.admin = "idle"
    /\ args.kpi_definitions = JsonFile("dict", ConfigV1.kpis)
    /\ args' = [args EXCEPT !.kpi_definitions = BrokenFile]
    /\ pc' = [pc EXCEPT !.admin = "write"]
    /\ ret' = [ret EXCEPT !.admin = "kpi_definitions"]
    /\ UNCHANGED mode
    /\ StoreUnchanged

UploadOpenWeights ==
    /\ mode = "upload"
    /\ pc.admin = "idle"
    /\ args.pillar_weights = JsonFile("dict", ConfigV1.pillar_weights)
    /\ args' = [args EXCEPT !.pillar_weights = BrokenFile]
    /\ pc' = [pc EXCEPT !.admin = "write"]
    /\ ret' = [ret EXCEPT !.admin = "pillar_weights"]
    /\ UNCHANGED mode
    /\ StoreUnchanged

\* line 88 and the end of the with block: the content is in the file
UploadWrite ==
    /\ mode = "upload"
    /\ pc.admin = "write"
    /\ args' = IF ret.admin = "kpi_definitions"
               THEN [args EXCEPT !.kpi_definitions = JsonFile("dict", ConfigV2.kpis)]
               ELSE [args EXCEPT !.pillar_weights = JsonFile("dict", ConfigV2.pillar_weights)]
    /\ pc' = [pc EXCEPT !.admin = "idle"]
    /\ UNCHANGED <<mode, ret>>
    /\ StoreUnchanged

\* scoring_engine.py line 16
ComputeLoadKpis ==
    /\ mode = "upload"
    /\ pc.compute = "load_kpis"
    /\ LET kpis == load_kpis(args.kpi_definitions)
       IN  IF kpis.raised # ""
           THEN /\ ret' = [ret EXCEPT !.compute.computed = kpis]
                /\ pc' = [pc EXCEPT !.compute = "raised"]
           ELSE /\ ret' = [ret EXCEPT !.compute.kpis = kpis.value.data]
                /\ pc' = [pc EXCEPT !.compute = "load_pillar_weights"]
    /\ UNCHANGED <<mode, args>>
    /\ StoreUnchanged

\* scoring_engine.py line 17
ComputeLoadWeights ==
    /\ mode = "upload"
    /\ pc.compute = "load_pillar_weights"
    /\ LET w == load_pillar_weights(args.pillar_weights)
       IN  IF w.raised # ""
           THEN /\ ret' = [ret EXCEPT !.compute.computed = w]
                /\ pc' = [pc EXCEPT !.compute = "raised"]
           ELSE /\ ret' = [ret EXCEPT !.compute.pillar_weights = w.value.data]
                /\ pc' = [pc EXCEPT !.compute = "score"]
    /\ UNCHANGED <<mode, args>>
    /\ StoreUnchanged

\* scoring_engine.py lines 19-60
ComputeScore ==
    /\ mode = "upload"
    /\ pc.compute = "score"
    /\ ret' = [ret EXCEPT !.compute.computed =
                 compute_scores(args.kpi_inputs, ret.compute.kpis,
                                ret.compute.pillar_weights)]
    /\ pc' = [pc EXCEPT !.compute = "done"]
    /\ UNCHANGED <<mode, args>>
    /\ StoreUnchanged

NextUpload ==
    \/ UploadOpenKpis
    \/ UploadOpenWeights
    \/ UploadWrite
    \/ ComputeLoadKpis
    \/ ComputeLoadWeights
    \/ ComputeScore

SpecUpload == InitUpload /\ [][NextUpload]_vars

\* C27: one invocation computes with a single consistent configuration: an
\* upload that interleaves with it neither makes it fail on a partially
\* written file nor makes it combine the definitions of one configuration
\* version with the weights of another.
C27_OneConfigurationPerInvocation ==
    mode = "upload" =>
        /\ pc.compute # "raised"
        /\ pc.compute \in {"score", "done"} =>
              [kpis |-> ret.compute.kpis, pillar_weights |-> ret.compute.pillar_weights]
                 \in {ConfigV1, ConfigV2}

-----------------------------------------------------------------------------
(* The review's own fields in the payload *)

\* C28: in every assembled payload company_info carries the stored review's
\* own fields: review_id, company_name, industry and created_at are the id,
\* the company name, the industry and the creation timestamp of the review
\* record that get_review_by_id returns.
C28_CompanyInfoIsTheReview ==
    ReportReturned =>
        LET review == get_review_by_id(reviews, report.review_id)
            company_info == report.out.value.company_info
        IN  /\ company_info.review_id = review[1]
            /\ company_info.company_name = review[2]
            /\ company_info.industry = review[3]
            /\ company_info.created_at = review[5]

-----------------------------------------------------------------------------
(* Strengths and Weaknesses are disjoint *)

\* the records of the call whose score is a number of 4 or more, 2 or less
StrongRecords ==
    {i \in 1..Len(args.pairs) : IsNum(args.pairs[i][2]) /\ args.pairs[i][2].n >= Milli(4)}
WeakRecords ==
    {i \in 1..Len(args.pairs) : IsNum(args.pairs[i][2]) /\ args.pairs[i][2].n <= Milli(2)}

\* C29: in the result of generate_swot a score record adds a Strength iff
\* its score >= 4 and a Weakness iff its score <= 2, a record with
\* 2 < score < 4 adds neither, so no record adds both and Strengths plus
\* Weaknesses never outnumber the records.
C29_StrengthXorWeakness ==
    (mode = "generate_swot" /\ pc = "done") =>
        /\ Len(ret.value.Strengths) = Cardinality(StrongRecords)
        /\ Len(ret.value.Weaknesses) = Cardinality(WeakRecords)
        /\ Len(ret.value.Strengths) + Len(ret.value.Weaknesses) <= Len(args.scores)

-----------------------------------------------------------------------------
(* The two ladders of the narrative side by side *)

\* C30: for every BHI the two narrative ladders agree: the health label is
\* "strong" exactly when the priority action is the sustain/expand text,
\* "moderate" exactly when it is the targeted-improvement text and "weak"
\* exactly when it is the urgent text.
C30_LaddersAgree ==
    NarrateDone =>
        /\ HealthLabel \in {"strong", "moderate", "weak"}
        /\ HealthLabel = "strong" <=> ret.value.priority_actions = SustainText
        /\ HealthLabel = "moderate" <=> ret.value.priority_actions = TargetedText
        /\ HealthLabel = "weak" <=> ret.value.priority_actions = UrgentText

\* C30 witness: the limit 3, where a ladder with the other comparison would
\* part from the label: moderate, with the targeted-improvement text
C30_Witness ==
    /\ NarrateDone
    /\ args.report.bhi = Milli(3)
    /\ HealthLabel = "moderate"
    /\ ret.value.priority_actions = TargetedText

=============================================================================
